---- MODULE Spec2Model ----
(***************************************************************************)
(* State-machine model of the MNX -> VexFlow translation pass of           *)
(* src/p/common.js (the version starting at line 1027): measuresToFactory  *)
(* and the functions it drives (getEventItem, the beam / slur / tie        *)
(* trackers, processQueues, flushLine).                                    *)
(*                                                                         *)
(* The document is supplied piecewise: every action that consumes a piece  *)
(* of the input (a global measure, a part-measure header, an event) draws  *)
(* that piece from a bounded set.  Event handles (StaveNote objects) are   *)
(* serial numbers in creation order; 0 stands for null.  Widths are in     *)
(* canvas units and are integers; a justified width scalingFactor * w is   *)
(* kept as the exact fraction num / den.                                   *)
(***************************************************************************)
EXTENDS Integers, Sequences, FiniteSets, TLC

\* ---------------------------------------------------------------- bounds
MaxParts == 2
MaxMeasures == 3
MaxEvents == 3
MaxSeqs == 2
MaxChoices == 3
MaxPasses == 2

\* ------------------------------------------------------ program constants
defaultSheetWidth == 1200
defaultSheetHeight == 200
testMeasureWidth == 350
minMeasureWidth == 200
measureWidthAestheticFactor == 2
\* sheetWidthSafetyFactor = 0.01, kept in hundredths
sheetWidthSafetyFactorPct == 1
\* measureHeightSafetyFactor = 0.1, kept in tenths
measureHeightSafetyFactorTenths == 1

\* defaultSheetWidth * (1 - sheetWidthSafetyFactor)
SafeSheetWidth == (defaultSheetWidth * (100 - sheetWidthSafetyFactorPct)) \div 100

\* placeholder id of an event that carries no "id"
DefaultEventID == "EVENT21M383"
\* a deleted / never present "source" or "destination" key
Absent == "<absent>"
\* no "id" key in an event or a note
NoId == "<none>"
\* the null handle
Null == 0

continuableInfosTemplate == [ids |-> <<>>, partial |-> <<>>]
queueTemplate == [staves |-> <<>>, voices |-> <<>>]
positionTemplate == [x |-> 0, y |-> 0]

\* ------------------------------------------------------- sequence helpers
Includes(s, x) == \E i \in 1..Len(s) : s[i] = x

\* Array.prototype.indexOf, 0-based, -1 when missing
IndexOf(s, x) ==
    IF Includes(s, x) THEN (CHOOSE i \in 1..Len(s) : s[i] = x /\ \A k \in 1..(i-1) : s[k] # x) - 1
    ELSE -1

RECURSIVE SumSeq(_)
SumSeq(s) == IF s = <<>> THEN 0 ELSE Head(s) + SumSeq(Tail(s))

Max2(a, b) == IF a < b THEN b ELSE a

Range(s) == {s[i] : i \in 1..Len(s)}

\* ------------------------------------------------------------ identifiers
EffectiveItemID(item) == IF item.id = NoId THEN DefaultEventID ELSE item.id

NoteIDsOf(item) ==
    [k \in 1..Len(item.notes) |->
        IF item.notes[k].id # NoId THEN item.notes[k].id
        ELSE EffectiveItemID(item) \o "_NOTE" \o ToString(k - 1)]

\* --------------------------------------------------- continuation trackers
\* updateBeamsWithEvent, with the filter that drops the id
BeamDropsAllCopies(ids, id) == SelectSeq(ids, LAMBDA myID : myID # id)

UpdateBeamsWithEvent(b, id, event) ==
    [ids     |-> [i \in 1..Len(b.ids) |->
                    IF Includes(b.ids[i], id) THEN BeamDropsAllCopies(b.ids[i], id)
                    ELSE b.ids[i]],
     partial |-> [i \in 1..Len(b.ids) |->
                    IF Includes(b.ids[i], id) THEN Append(b.partial[i], event)
                    ELSE b.partial[i]]]

\* a variant in which an event never matches an outstanding source or destination
UpdateSlursIgnoringEvent(s, id, event) == s

UpdateSlursWithEvent(s, id, event) ==
    [ids     |-> [i \in 1..Len(s.ids) |->
                    IF s.ids[i].source = id THEN [s.ids[i] EXCEPT !.source = Absent]
                    ELSE IF s.ids[i].destination = id THEN [s.ids[i] EXCEPT !.destination = Absent]
                    ELSE s.ids[i]],
     partial |-> [i \in 1..Len(s.ids) |->
                    IF s.ids[i].source = id THEN <<event>> \o s.partial[i]
                    ELSE IF s.ids[i].destination = id THEN Append(s.partial[i], event)
                    ELSE s.partial[i]]]

UpdateTiesWithEvent(t, nIDs, event) ==
    [ids     |-> [i \in 1..Len(t.ids) |->
                    IF Includes(nIDs, t.ids[i].source) THEN [t.ids[i] EXCEPT !.source = Absent]
                    ELSE IF Includes(nIDs, t.ids[i].destination) THEN [t.ids[i] EXCEPT !.destination = Absent]
                    ELSE t.ids[i]],
     partial |-> [i \in 1..Len(t.ids) |->
                    IF Includes(nIDs, t.ids[i].source)
                        THEN <<[event |-> event, index |-> IndexOf(nIDs, t.ids[i].source)]>> \o t.partial[i]
                    ELSE IF Includes(nIDs, t.ids[i].destination)
                        THEN Append(t.partial[i], [event |-> event, index |-> IndexOf(nIDs, t.ids[i].destination)])
                    ELSE t.partial[i]]]

\* the completion tests of updateBeamsVF / updateSlursVF / updateTiesVF
BeamNeverCompleted(ids) == FALSE
BeamCompleted(ids) == Len(ids) = 0
SpanCompleted(e) == e.source = Absent /\ e.destination = Absent

\* the indices of the entries the updateXVF loops keep, and of those they remove
KeepBeamIdx(b) == SelectSeq([i \in 1..Len(b.ids) |-> i], LAMBDA i : ~BeamCompleted(b.ids[i]))
DoneBeamIdx(b) == SelectSeq([i \in 1..Len(b.ids) |-> i], LAMBDA i : BeamCompleted(b.ids[i]))
KeepSpanIdx(t) == SelectSeq([i \in 1..Len(t.ids) |-> i], LAMBDA i : ~SpanCompleted(t.ids[i]))
DoneSpanIdx(t) == SelectSeq([i \in 1..Len(t.ids) |-> i], LAMBDA i : SpanCompleted(t.ids[i]))

Pick(s, idx) == [k \in 1..Len(idx) |-> s[idx[k]]]

\* a variant that also keeps a beam of one note
BeamIsMaterializedAnyLength(partial) == Len(partial) > 0

\* only a nontrivial completed beam becomes a Beam object
BeamIsMaterialized(partial) == Len(partial) > 1

\* a variant that creates a Beam object for every completed beam
NewBeamsVFOfAnyLength(b) == Pick(b.partial, DoneBeamIdx(b))

\* updateBeamsVF: the beam objects created, in creation order
NewBeamsVF(b) ==
    SelectSeq(Pick(b.partial, DoneBeamIdx(b)), BeamIsMaterialized)

\* updateBeamsVF: the beams object afterwards
UpdateBeamsVF(b) ==
    [ids     |-> Pick(b.ids, KeepBeamIdx(b)),
     partial |-> Pick(b.partial, KeepBeamIdx(b))]

\* partial[i][k] of a JS array: undefined (here Null) past the end
At(s, k) == IF k <= Len(s) THEN s[k] ELSE Null

\* updateSlursVF: the Curve objects created
NewSlursVF(s) ==
    [k \in 1..Len(DoneSpanIdx(s)) |->
        [from |-> At(s.partial[DoneSpanIdx(s)[k]], 1),
         to   |-> At(s.partial[DoneSpanIdx(s)[k]], 2)]]

UpdateSlursVF(s) ==
    [ids     |-> Pick(s.ids, KeepSpanIdx(s)),
     partial |-> Pick(s.partial, KeepSpanIdx(s))]

\* updateTiesVF: the findIndex callback reads the undeclared name `partial`
\* as soon as an already stashed tie has the same source event; that read
\* throws a ReferenceError.
TiesVFThrows(t) ==
    LET d == DoneSpanIdx(t)
    IN \E k1, k2 \in 1..Len(d) :
          k1 < k2 /\ t.partial[d[k1]][1].event = t.partial[d[k2]][1].event

\* updateTiesVF: the StaveTie objects created (when nothing was thrown)
NewTiesVF(t) ==
    [k \in 1..Len(DoneSpanIdx(t)) |->
        LET p == t.partial[DoneSpanIdx(t)[k]]
        IN [from |-> p[1].event, to |-> p[2].event,
            first_indices |-> <<p[1].index>>, last_indices |-> <<p[2].index>>]]

UpdateTiesVF(t) ==
    [ids     |-> Pick(t.ids, KeepSpanIdx(t)),
     partial |-> Pick(t.partial, KeepSpanIdx(t))]

\* ------------------------------------------------------------------ state
VARIABLES
    pc,                 \* position inside convertMNX / measuresToFactory
    docClass,           \* which family of bounded inputs the document is drawn from
    choices,            \* how many departures from the plain document were drawn
    numParts,           \* obj.parts.length
    numMeasures,        \* obj.global.measures.length
    measureIdx,         \* index of the measure being translated (0-based)
    partIdx,            \* j of the loop over parts (0-based)
    curKeySignature, prevKeySignature, curTimeSignature,
    clefsArr,           \* running clef per part
    clefsAdded,         \* per part: explicit clef drawn in this measure
    globalMeasInfo,     \* attributes of the measure being translated
    globalMeasInfos,    \* attributes of the measures in the pending queue
    beams, slurs, ties, \* the three continuation trackers
    noteIDs,            \* the implicit global written by getEventItem
    stave,              \* stave of the part-measure being translated
    parsedSequence,     \* voices of the part-measure being translated
    graceQueue,         \* grace notes waiting for the next event of the part-measure
    queues,             \* pending queue
    lineQueues,         \* line queue
    curPosition,        \* running cursor
    factory,            \* what the rendering backend has been handed
    outcome,            \* how the pass ended
    events,             \* history: the events translated, by handle
    beamInfo,           \* history: declaration of each live beam (aligned with beams)
    beamLog,            \* history: beams removed by updateBeamsVF
    spanLog,            \* history: slurs / ties removed by updateSlursVF / updateTiesVF
    placeLog,           \* history: measures placed by processQueues
    doc,                \* history: the input this pass has read so far
    prev,               \* history: input and result of the previous pass
    pass                \* which call of convertMNX this is (1-based)

vars == <<pc, docClass, choices, numParts, numMeasures, measureIdx, partIdx,
          curKeySignature, prevKeySignature, curTimeSignature, clefsArr, clefsAdded,
          globalMeasInfo, globalMeasInfos, beams, slurs, ties, noteIDs, stave,
          parsedSequence, graceQueue, queues, lineQueues, curPosition, factory, outcome,
          events, beamInfo, beamLog, spanLog, placeLog, doc, prev, pass>>

\* the implicit global noteIDs before any assignment in this page
Undeclared == <<"<undeclared>">>

NoError == [class |-> "none", what |-> "", count |-> 0]
Thrown(class, what, count) == [class |-> class, what |-> what, count |-> count]

\* ----------------------------------------------------------- input domains
\* The documents explored come in families, each rich in one respect
\* and plain in the others:
\*   beams   beam declarations of every shape over plain events
\*   slurs   events that declare slurs
\*   ties    events whose notes declare ties
\*   layout  content widths, clefs, key and time changes over plain events
\*   content document heads, clefs and sequence content of every kind: events
\*           with and without defects, grace items, tuplets, other types
\*   canvas  bounding boxes of the voices over plain events
DocClasses == {"beams", "slurs", "ties", "layout", "content", "canvas"}

EventIds == {"a", "b"}

NoTie == [kind |-> "none", v |-> ""]
TieDecls ==
    {[kind |-> "target", v |-> "x"],
     [kind |-> "location", v |-> "outgoing"], [kind |-> "location", v |-> "incoming"],
     [kind |-> "location", v |-> "sideways"]}

SlurDecls ==
    {<<[kind |-> "location", v |-> "outgoing"]>>, <<[kind |-> "location", v |-> "incoming"]>>,
     <<[kind |-> "location", v |-> "sideways"]>>}
    \cup {<<[kind |-> "target", v |-> t]>> : t \in EventIds}
    \cup {<<[kind |-> "target", v |-> "b"], [kind |-> "target", v |-> "b"]>>}

\* a duration object; base NoId stands for an item without "duration",
\* base Absent for a duration without "base"
Dur(base, dots) == [base |-> base, dots |-> dots]
Quarter == Dur("quarter", 0)

\* a sequence content item: an event (a rest or notes) unless said otherwise
Item(id, kind, slurList, notes) ==
    [type |-> "event", id |-> id, kind |-> kind, slurs |-> slurList, notes |-> notes,
     measure |-> FALSE, dur |-> Quarter, stem |-> NoId, mark |-> NoId,
     slash |-> NoId, content |-> <<>>]
Note(id, tie) == [id |-> id, tie |-> tie]

RestItems(ids) == {Item(i, "rest", <<>>, <<>>) : i \in ids}
PlainItems(ids) == {Item(i, "notes", <<>>, <<Note(NoId, NoTie)>>) : i \in ids}
SlurItems == {Item(i, "notes", d, <<Note(NoId, NoTie)>>) : i \in EventIds \cup {NoId}, d \in SlurDecls}
TieItems ==
    {Item(NoId, "notes", <<>>, <<Note(n, t)>>) : n \in {NoId, "x"}, t \in TieDecls \cup {NoTie}}
    \cup {Item(NoId, "notes", <<>>, <<Note(NoId, t), Note(NoId, t)>>) : t \in TieDecls}
    \cup {Item("a", "notes", <<>>, <<Note(NoId, t)>>) : t \in TieDecls \cup {NoTie}}

PlainNote == Item(NoId, "notes", <<>>, <<Note(NoId, NoTie)>>)
PlainRest == Item(NoId, "rest", <<>>, <<>>)
SlurredNote == Item("a", "notes", <<[kind |-> "location", v |-> "outgoing"]>>, <<Note(NoId, NoTie)>>)

\* events with "measure": true, with and without a duration
WholeMeasureItems ==
    {[e EXCEPT !.measure = TRUE] : e \in {PlainRest, SlurredNote}}
    \cup {[PlainRest EXCEPT !.measure = TRUE, !.dur = Dur(NoId, 0)]}

\* events without a duration or a base, with an unknown base, with dots
DurationItems ==
    {[e EXCEPT !.dur = d] :
        e \in {PlainNote, PlainRest},
        d \in {Dur(NoId, 0), Dur(Absent, 0), Dur("breve", 0), Dur("quarter", -1), Dur("quarter", 1)}}

MarkedItems ==
    {[PlainNote EXCEPT !.stem = v] : v \in {"up", "sideways"}}
    \cup {[PlainNote EXCEPT !.mark = v] : v \in {"staccato", "fermata"}}

\* the content of a grace or tuplet item; the last one holds a child that
\* is no event
ChildLists ==
    {<<PlainNote>>, <<PlainNote, PlainNote>>, <<SlurredNote, [PlainNote EXCEPT !.type = "dynamic"]>>}

GraceItems ==
    {[PlainNote EXCEPT !.type = "grace", !.slash = sl, !.content = c] :
        sl \in {NoId, "true", "false"}, c \in ChildLists}

TupletItems == {[PlainNote EXCEPT !.type = "tuplet", !.content = c] : c \in ChildLists}

\* items of a type that is not supported, and without a type
OtherItems == {[PlainNote EXCEPT !.type = t] : t \in {"lyric", Absent}}

ContentItems ==
    {PlainNote, PlainRest, SlurredNote} \cup WholeMeasureItems \cup DurationItems \cup MarkedItems
    \cup GraceItems \cup TupletItems \cup OtherItems

EventItems(c) ==
    IF c = "content" THEN ContentItems
    ELSE IF c = "canvas" THEN {PlainNote}
    ELSE IF c = "beams" THEN PlainItems(EventIds \cup {NoId}) \cup RestItems(EventIds \cup {NoId})
    ELSE IF c = "slurs" THEN SlurItems \cup PlainItems(EventIds \cup {NoId}) \cup RestItems({"b"})
    ELSE IF c = "ties" THEN TieItems \cup RestItems({NoId})
    ELSE PlainItems(EventIds) \cup RestItems({"b"})

\* the "beams" array of a part-measure
BeamDeclarations(c) ==
    IF c = "beams"
    THEN {<<>>, << <<"a", "b">> >>, << <<"b", "a">> >>, << <<"a">> >>, << <<"a", "a">> >>, << <<>> >>,
          << <<"a", "b">>, <<"b">> >>, << <<"a", DefaultEventID>> >>}
    ELSE IF c = "canvas" THEN {<<>>}
    ELSE {<<>>, << <<"a", "b">> >>}

\* Formatter.preCalculateMinTotalWidth of the voices of a part-measure
defaultContentWidth == 130
ContentWidths(c) == IF c = "layout" THEN {0, defaultContentWidth, 260, 390, 450} ELSE {defaultContentWidth}

Clefs == {"treble", "bass"}
\* a clef is given by its common name, "alto" standing for every pair of
\* sign and staff position that clefFromMNX does not know; the other two
\* are a clef object without a sign and a "clefs" array of two
ClefChoices(c) ==
    IF c = "layout" THEN Clefs \cup {NoId}
    ELSE IF c = "content" THEN {NoId, "bass", "alto", "<no sign>", "<two clefs>"}
    ELSE {NoId}

\* obj.mnx: with or without a version
Metadata(hasVersion, version) == [hasVersion |-> hasVersion, version |-> version]
Heads(c) ==
    IF c = "content" THEN {Metadata(TRUE, 1), Metadata(TRUE, 2), Metadata(FALSE, 0)}
    ELSE {Metadata(TRUE, 1)}
KeyChoices(c) == IF c = "layout" THEN {NoId, "G"} ELSE {NoId}
TimeChoices(c) == IF c = "layout" THEN {NoId, "3/4"} ELSE {NoId}

\* how far each family goes: the layout and canvas families have the most
\* measures, the others at most MaxMeasures - 1 part-measures
MeasuresOf(c) == IF c \in {"layout", "canvas"} THEN MaxMeasures ELSE MaxMeasures - 1
PartMeasuresOf(c) == IF c \in {"layout", "canvas"} THEN MaxParts * MaxMeasures ELSE MaxMeasures - 1
\* every departure from the empty default document (an event, a beam, a
\* further sequence, a clef, a key or time change, another content width,
\* another bounding box)
\* counts as one choice
ChoicesOf(c) == IF c = "beams" THEN MaxChoices + 1 ELSE MaxChoices
Cost(b) == IF b THEN 1 ELSE 0

commonTime == "4/4"
CMajor == "C"

\* what a pass has read of its document, in reading order: the dimensions,
\* then per measure the time and key, per part-measure the clef and the
\* beams, the content items, the further sequences, the measured content
\* widths, and whether the end was reached; n counts what was read and
\* every entry carries its place in the reading order
NewDoc(np, nm) ==
    [dims |-> <<np, nm>>, n |-> 0, heads |-> <<>>, measures |-> <<>>, parts |-> <<>>,
     items |-> <<>>, seqs |-> <<>>, widths |-> <<>>, ended |-> FALSE]

NoPass == [doc |-> NewDoc(0, 0), outcome |-> NoError, widths |-> <<>>]

\* what the page-wide name noteIDs may hold when a pass starts after other
\* documents were translated on the same page
LeftoverNoteIDs == {<<"x">>}

\* new Factory(...): nothing handed over, nothing drawn
NewFactory ==
    [beams |-> <<>>, curves |-> <<>>, ties |-> <<>>, systems |-> <<>>, drawn |-> 0,
     height |-> defaultSheetHeight]

\* ------------------------------------------------------------------- Init
Init ==
    /\ pc = "start"
    /\ docClass \in DocClasses
    /\ numParts \in 1..MaxParts
    /\ numMeasures \in 0..MeasuresOf(docClass)
    /\ numParts * numMeasures <= PartMeasuresOf(docClass)
    /\ choices = 0
    /\ measureIdx = 0
    /\ partIdx = 0
    /\ curKeySignature = CMajor
    /\ prevKeySignature = NoId
    /\ curTimeSignature = commonTime
    /\ clefsArr = [j \in 1..numParts |-> "treble"]
    /\ clefsAdded = [j \in 1..numParts |-> FALSE]
    /\ globalMeasInfo = NoId
    /\ globalMeasInfos = <<>>
    /\ beams = continuableInfosTemplate
    /\ slurs = continuableInfosTemplate
    /\ ties = continuableInfosTemplate
    /\ noteIDs = Undeclared
    /\ stave = NoId
    /\ parsedSequence = <<>>
    /\ graceQueue = <<>>
    /\ queues = [size |-> 0, queues |-> [j \in 1..numParts |-> queueTemplate]]
    /\ lineQueues = [size |-> 0, queues |-> [j \in 1..numParts |-> queueTemplate]]
    /\ curPosition = positionTemplate
    /\ factory = NewFactory
    /\ outcome = NoError
    /\ events = <<>>
    /\ beamInfo = <<>>
    /\ beamLog = <<>>
    /\ spanLog = <<>>
    /\ placeLog = <<>>
    /\ doc = NewDoc(numParts, numMeasures)
    /\ prev = NoPass
    /\ pass = 1

\* ------------------------------------------------------ parseMNXv1: head
\* validateMNXMetadata and the version test
HeadError(head) ==
    IF ~head.hasVersion THEN Thrown("MNXParseError", "version missing", 0)
    ELSE IF head.version # 1 THEN Thrown("MNXParseError", "version", 0)
    ELSE NoError

\* parseMNXv1 up to the call of measuresToFactory
ParseHead ==
    /\ pc = "start"
    /\ \E head \in Heads(docClass) :
         /\ doc' = [doc EXCEPT !.n = @ + 1, !.heads = Append(@, [at |-> doc.n + 1, head |-> head])]
         /\ outcome' = HeadError(head)
         /\ pc' = IF HeadError(head) = NoError THEN "measure" ELSE "aborted"
    /\ UNCHANGED <<graceQueue, prev, pass, docClass, choices, numParts, numMeasures, measureIdx, partIdx,
                   curKeySignature, prevKeySignature, curTimeSignature, clefsArr, clefsAdded,
                   globalMeasInfo, globalMeasInfos, beams, slurs, ties, noteIDs, stave,
                   parsedSequence, queues, lineQueues, curPosition, factory, events, beamInfo,
                   beamLog, spanLog, placeLog>>

\* a variant that reports every error as a structural one
ConvertMNXOneCategory(out) == IF out = NoError THEN "Success!" ELSE "[MNX Parse Error]"

\* convertMNX: what the caller gets for the way the pass ended
ConvertMNX(out) ==
    IF out = NoError THEN "Success!"
    ELSE IF out.class = "MNXParseError" THEN "[MNX Parse Error]"
    ELSE IF out.class = "UnsupportedFeatureError" THEN "[Unsupported Feature]"
    ELSE "<thrown>"

\* ------------------------------------------------- measuresToFactory: head
\* the part of the map callback before the loop over parts
BeginMeasure ==
    /\ pc = "measure"
    /\ measureIdx < numMeasures
    /\ \E time \in TimeChoices(docClass), key \in KeyChoices(docClass) :
         LET newTime == IF time # NoId THEN time ELSE curTimeSignature
             newKey  == IF key # NoId THEN key ELSE curKeySignature
         IN /\ choices + Cost(time # NoId) + Cost(key # NoId) <= ChoicesOf(docClass)
            /\ choices' = choices + Cost(time # NoId) + Cost(key # NoId)
            /\ curTimeSignature' = newTime
            /\ prevKeySignature' = IF key # NoId THEN curKeySignature ELSE prevKeySignature
            /\ curKeySignature' = newKey
            /\ doc' = [doc EXCEPT !.n = @ + 1,
                                  !.measures = Append(@, [at |-> doc.n + 1, time |-> time, key |-> key])]
            /\ globalMeasInfo' =
                 [start      |-> measureIdx = 0,
                  end        |-> measureIdx = numMeasures - 1,
                  timeChange |-> IF time # NoId THEN newTime ELSE NoId,
                  keyChange  |-> IF key # NoId THEN <<curKeySignature, newKey>> ELSE <<>>,
                  startKey   |-> NoId,
                  startClefs |-> [clefs |-> <<>>, clefsAdded |-> <<>>]]
    /\ clefsAdded' = [j \in 1..numParts |-> FALSE]
    /\ partIdx' = 0
    /\ pc' = "part"
    /\ UNCHANGED <<graceQueue, prev, pass, docClass, numParts, numMeasures, measureIdx, clefsArr, globalMeasInfos,
                   beams, slurs, ties, noteIDs, stave, parsedSequence, queues, lineQueues,
                   curPosition, factory, outcome, events, beamInfo, beamLog, spanLog, placeLog>>

\* updateArrayFields(beams, newBeams)
AddBeams(b, newBeamIDs) ==
    [ids     |-> b.ids \o newBeamIDs,
     partial |-> b.partial \o [k \in 1..Len(newBeamIDs) |-> <<>>]]

Modifier(t, v, c) == [t |-> t, v |-> v, c |-> c]

\* the loop body over parts, up to the call of getSequences
\* a variant that gives the clef to every part
WithClefForAll(arr, j, clef) == IF clef # NoId THEN [k \in DOMAIN arr |-> clef] ELSE arr

\* clefsArr[j] = clefFromMNX(...) if the part-measure has "clefs"
WithClef(arr, j, clef) == IF clef # NoId THEN [arr EXCEPT ![j] = clef] ELSE arr

\* the "clefs" of a part-measure: the length test, validatePositionedClef,
\* validateClef and clefFromMNX
ClefError(clef) ==
    IF clef = "<two clefs>" THEN Thrown("UnsupportedFeatureError", "clefs", 0)
    ELSE IF clef = "<no sign>" THEN Thrown("MNXParseError", "clef", 0)
    ELSE IF clef \notin Clefs \cup {NoId} THEN Thrown("UnsupportedFeatureError", "clef", 0)
    ELSE NoError

BeginPart ==
    /\ pc = "part"
    /\ \E clef \in ClefChoices(docClass), decl \in BeamDeclarations(docClass) :
         /\ choices + Cost(clef # NoId) + Len(decl) <= ChoicesOf(docClass)
         /\ choices' = choices + Cost(clef # NoId) + Len(decl)
         /\ doc' = [doc EXCEPT !.n = @ + 1,
                               !.parts = Append(@, [at |-> doc.n + 1, clef |-> clef, decl |-> decl])]
         /\ IF ClefError(clef) # NoError
            THEN /\ decl = <<>>
                 /\ outcome' = ClefError(clef)
                 /\ pc' = "aborted"
                 /\ UNCHANGED <<clefsArr, clefsAdded, stave, beams, beamInfo, parsedSequence, graceQueue>>
            ELSE /\ clefsArr' = WithClef(clefsArr, partIdx + 1, clef)
                 /\ clefsAdded' = IF clef # NoId THEN [clefsAdded EXCEPT ![partIdx + 1] = TRUE]
                                  ELSE clefsAdded
                 /\ stave' = [m |-> measureIdx, p |-> partIdx, width |-> testMeasureWidth, x |-> 0, y |-> 0,
                              mods |-> IF clef # NoId THEN <<Modifier("clef", clef, "")>> ELSE <<>>,
                              endBar |-> "single",
                              \* history: what was in effect when the stave was created
                              keyInEffect |-> curKeySignature,
                              clefInEffect |-> IF clef # NoId THEN clef ELSE clefsArr[partIdx + 1],
                              explicitClef |-> clef # NoId]
                 /\ beams' = AddBeams(beams, decl)
                 /\ beamInfo' = beamInfo \o [k \in 1..Len(decl) |->
                                    [decl |-> decl[k], m |-> measureIdx, p |-> partIdx, k |-> k]]
                 /\ parsedSequence' = << <<>> >>
                 /\ graceQueue' = <<>>
                 /\ pc' = "seq"
                 /\ UNCHANGED outcome
    /\ UNCHANGED <<prev, pass, docClass, numParts, numMeasures, measureIdx, partIdx, curKeySignature,
                   prevKeySignature, curTimeSignature, globalMeasInfo, globalMeasInfos,
                   slurs, ties, noteIDs, queues, lineQueues, curPosition, factory,
                   events, beamLog, spanLog, placeLog>>

\* ------------------------------------------------------------ getEventItem
\* The entries of slurs.ids / ties.ids carry, besides source and destination,
\* two history fields the code does not have: decl (how the span was
\* declared) and by (the handle of the declaring event).
SpanEntry(src, dst, decl, by) == [source |-> src, destination |-> dst, decl |-> decl, by |-> by]

Push(t, entry, partial) == [ids |-> Append(t.ids, entry), partial |-> Append(t.partial, partial)]

\* a targeted slur is pushed unless an entry with the same outstanding pair exists
SlurAlreadyThere(s, src, dst) ==
    \E i \in 1..Len(s.ids) : s.ids[i].source = src /\ s.ids[i].destination = dst

DeclareSlur(s, eid, d, by) ==
    IF d.kind = "target"
    THEN IF SlurAlreadyThere(s, eid, d.v) THEN s
         ELSE Push(s, SpanEntry(eid, d.v, "target", by), <<>>)
    ELSE IF d.v = "outgoing" THEN Push(s, SpanEntry(eid, Absent, "outgoing", by), <<Null>>)
    ELSE Push(s, SpanEntry(Absent, eid, "incoming", by), <<Null>>)

\* the slur branch that throws UnsupportedFeatureError
SlurLocationUnrecognized(d) == d.kind = "location" /\ d.v \notin {"outgoing", "incoming"}

\* the slurs are visited in order; the visit stops at the first throw
RECURSIVE DeclareSlurs(_, _, _, _)
DeclareSlurs(s, eid, ds, by) ==
    IF ds = <<>> \/ SlurLocationUnrecognized(Head(ds)) THEN s
    ELSE DeclareSlurs(DeclareSlur(s, eid, Head(ds), by), eid, Tail(ds), by)

SlursThrow(ds) == \E k \in 1..Len(ds) : SlurLocationUnrecognized(ds[k])

NullNote == [event |-> Null, index |-> -1]

\* the tie branch that tests `s.location`: s is not in scope there
TieReadsUnboundName(tie) == tie.kind = "location" /\ tie.v # "outgoing"

DeclareTie(t, nid, tie, by) ==
    IF tie.kind = "target" THEN Push(t, SpanEntry(nid, tie.v, "target", by), <<>>)
    ELSE IF tie.kind = "location" /\ tie.v = "outgoing"
         THEN Push(t, SpanEntry(nid, Absent, "outgoing", by), <<NullNote>>)
    ELSE t

\* the notes are visited in order; the visit stops at the first throw
RECURSIVE DeclareTies(_, _, _, _, _)
DeclareTies(t, nIDs, notes, k, by) ==
    IF k > Len(notes) \/ TieReadsUnboundName(notes[k].tie) THEN t
    ELSE DeclareTies(DeclareTie(t, nIDs[k], notes[k].tie, by), nIDs, notes, k + 1, by)

TiesThrow(notes) == \E k \in 1..Len(notes) : TieReadsUnboundName(notes[k].tie)

\* a variant that puts the new item in front of the voice
PrependToLast(ss, x) == [ss EXCEPT ![Len(ss)] = <<x>> \o @]

AppendToLast(ss, x) == [ss EXCEPT ![Len(ss)] = Append(@, x)]

\* the keys of durationTranslation, stemTranslation and articulationTranslation
DurationBases == {"whole", "half", "quarter", "eighth", "16th", "32nd", "64th", "128th"}
StemDirections == {"up", "down"}
Articulations == {"accent", "staccatissimo", "staccato", "strongAccent", "tenuto"}

\* what getEventItem and getSequenceContentItem work on: the trackers, the
\* page-wide noteIDs, the grace queue of the part-measure, the events
\* created so far, the sequenceables returned and the error thrown, if any
Fail(st, class, what) == [st EXCEPT !.out = Thrown(class, what, 0)]

\* obs: the note ids handed to updateTiesWithEvent for this event;
\* grace, slash: created as a grace note, and with the slash option;
\* group: the grace notes attached in front of this event
EventRecord(item, h, obs, thisGrace, slash, group) ==
    [id |-> EffectiveItemID(item), given |-> item.id, kind |-> item.kind, m |-> measureIdx, p |-> partIdx,
     s |-> Len(parsedSequence), slurs |-> item.slurs, notes |-> item.notes, obs |-> obs,
     clef |-> clefsArr[partIdx + 1], dots |-> IF item.dur.dots > 0 THEN item.dur.dots ELSE 0,
     grace |-> thisGrace, slash |-> slash, group |-> group]

\* a variant that lets a whole-measure event keep its duration
NeverWholeMeasureWithDuration(item) == FALSE

\* getEventItem: a whole-measure event that has a duration
WholeMeasureWithDuration(item) == item.measure /\ item.dur.base # NoId

\* noteToNoteVF: if (numDots < 0) throw
NegativeDotsThrow(item) == item.dur.dots < 0

\* a variant that leaves the grace queue as it is
GraceKept(grace, thisGrace) == grace

\* getEventItem: an event that is no grace note takes the whole grace queue
\* as one group in front of it and empties the queue
GraceLeft(grace, thisGrace) == IF thisGrace THEN grace ELSE <<>>
GraceGroup(grace, thisGrace) == IF thisGrace THEN <<>> ELSE grace

\* getEventItem: st after the call; st.out tells whether it threw
GetEventItem(st, item, thisGrace, slash) ==
    LET eid    == EffectiveItemID(item)
        h      == Len(st.events) + 1
        isNote == item.kind = "notes" /\ ~item.measure
        slurs1 == IF isNote THEN DeclareSlurs(st.slurs, eid, item.slurs, h) ELSE st.slurs
        nIDs   == IF isNote THEN NoteIDsOf(item) ELSE st.noteIDs
        ties1  == IF isNote THEN DeclareTies(st.ties, nIDs, item.notes, 1, h) ELSE st.ties
        group  == GraceGroup(st.grace, thisGrace)
        made   == [st EXCEPT
                     !.events = Append(@, EventRecord(item, h, nIDs, thisGrace,
                                                      thisGrace /\ isNote /\ slash, group)),
                     !.grace = GraceLeft(@, thisGrace),
                     !.noteIDs = nIDs,
                     !.beams = UpdateBeamsWithEvent(@, eid, h),
                     !.slurs = UpdateSlursWithEvent(slurs1, eid, h),
                     !.ties = ties1]
    IN IF WholeMeasureWithDuration(item)
         THEN Fail(st, "MNXParseError", "whole-measure duration")
       ELSE IF item.measure /\ item.kind # "rest"
         THEN Fail(st, "MNXParseError", "whole-measure rest")
       ELSE IF ~item.measure /\ item.dur.base = NoId
         THEN Fail(st, "MNXParseError", "duration")
       ELSE IF ~item.measure /\ item.dur.base = Absent
         THEN Fail(st, "MNXParseError", "duration base")
       ELSE IF ~item.measure /\ item.dur.base \notin DurationBases
         THEN Fail(st, "UnsupportedFeatureError", "duration base")
       ELSE IF isNote /\ item.stem \notin StemDirections \cup {NoId}
         THEN Fail(st, "UnsupportedFeatureError", "stem direction")
       ELSE IF isNote /\ item.mark \notin Articulations \cup {NoId}
         THEN Fail(st, "UnsupportedFeatureError", "articulation")
       ELSE IF isNote /\ SlursThrow(item.slurs)
         THEN Fail([st EXCEPT !.slurs = slurs1], "UnsupportedFeatureError", "slur location")
       ELSE IF isNote /\ TiesThrow(item.notes)
         THEN \* ReferenceError: s is not defined
              Fail([st EXCEPT !.slurs = slurs1, !.ties = ties1, !.noteIDs = nIDs], "ReferenceError", "s")
       ELSE IF isNote /\ NegativeDotsThrow(item)
         THEN Fail([st EXCEPT !.slurs = slurs1, !.ties = ties1, !.noteIDs = nIDs], "MNXParseError", "dots")
       ELSE IF nIDs = Undeclared
         THEN \* ReferenceError: noteIDs is not defined
              Fail(made, "ReferenceError", "noteIDs")
       ELSE [made EXCEPT !.ties = UpdateTiesWithEvent(ties1, nIDs, h)]

\* a variant that slashes every grace note
SlashAlways(given, grace) == TRUE

\* graceOptions.slash for the next child of a grace item
SlashOption(given, grace) == given = "true" \/ (given = NoId /\ grace = <<>>)

\* the loop over the children of a grace item (each result is pushed on the
\* grace queue) and the map over the children of a tuplet item, in order,
\* until one throws
RECURSIVE GetEventItems(_, _, _, _, _)
GetEventItems(st, content, k, asGrace, slashGiven) ==
    IF k > Len(content) \/ st.out # NoError THEN st
    ELSE LET st1 == GetEventItem(st, content[k], asGrace,
                                 asGrace /\ SlashOption(slashGiven, st.grace))
             st2 == IF asGrace /\ st1.out = NoError
                    THEN [st1 EXCEPT !.grace = Append(@, Len(st1.events))] ELSE st1
         IN GetEventItems(st2, content, k + 1, asGrace, slashGiven)

\* a variant that lets every child pass for an event
NoChildIsRefused(content) == FALSE

\* the map that validates the content of a grace or tuplet item
SomeChildIsNoEvent(content) == \E k \in 1..Len(content) : content[k].type # "event"

\* getSequenceContentItem: st after the call; st.notes are the sequenceables returned
GetSequenceContentItem(st, item) ==
    IF item.type = Absent THEN Fail(st, "MNXParseError", "content type")
    ELSE IF item.type = "event"
      THEN LET st1 == GetEventItem(st, item, FALSE, FALSE)
           IN IF st1.out = NoError THEN [st1 EXCEPT !.notes = <<Len(st1.events)>>] ELSE st1
    ELSE IF item.type = "grace"
      THEN IF SomeChildIsNoEvent(item.content) THEN Fail(st, "MNXParseError", "grace content")
           ELSE GetEventItems(st, item.content, 1, TRUE, item.slash)
    ELSE IF item.type = "tuplet"
      THEN IF SomeChildIsNoEvent(item.content) THEN Fail(st, "MNXParseError", "tuplet content")
           ELSE LET st1 == GetEventItems(st, item.content, 1, FALSE, NoId)
                IN IF st1.out = NoError
                   THEN [st1 EXCEPT !.notes = [k \in 1..(Len(st1.events) - Len(st.events)) |->
                                                  Len(st.events) + k]]
                   ELSE st1
    ELSE Fail(st, "UnsupportedFeatureError", "content type")

\* the reduce with updateArrayFields over the sequenceables of the items
RECURSIVE AppendAllToLast(_, _)
AppendAllToLast(ss, xs) ==
    IF xs = <<>> THEN ss ELSE AppendAllToLast(AppendToLast(ss, Head(xs)), Tail(xs))

\* how many events an item holds
EventsIn(item) == IF item.type \in {"grace", "tuplet"} THEN Len(item.content) ELSE 1

\* getSequenceContentItem for the next item of the sequence
Event ==
    /\ pc = "seq"
    /\ \E item \in EventItems(docClass) :
         LET st0 == [beams |-> beams, slurs |-> slurs, ties |-> ties, noteIDs |-> noteIDs,
                     grace |-> graceQueue, events |-> events, notes |-> <<>>, out |-> NoError]
             st1 == GetSequenceContentItem(st0, item)
         IN /\ Len(events) + EventsIn(item) <= MaxEvents
            /\ choices + Max2(1, EventsIn(item)) <= ChoicesOf(docClass)
            /\ choices' = choices + Max2(1, EventsIn(item))
            /\ doc' = [doc EXCEPT !.n = @ + 1,
                                  !.items = Append(@, [at |-> doc.n + 1, item |-> item])]
            /\ beams' = st1.beams
            /\ slurs' = st1.slurs
            /\ ties' = st1.ties
            /\ noteIDs' = st1.noteIDs
            /\ graceQueue' = st1.grace
            /\ events' = st1.events
            /\ outcome' = st1.out
            /\ pc' = IF st1.out = NoError THEN "seq" ELSE "aborted"
            /\ parsedSequence' = IF st1.out = NoError THEN AppendAllToLast(parsedSequence, st1.notes)
                                 ELSE parsedSequence
    /\ UNCHANGED <<prev, pass, docClass, numParts, numMeasures, measureIdx, partIdx, curKeySignature,
                   prevKeySignature, curTimeSignature, clefsArr, clefsAdded, globalMeasInfo,
                   globalMeasInfos, stave, queues, lineQueues, curPosition, factory,
                   beamInfo, beamLog, spanLog, placeLog>>

\* the next sequence of the part-measure
NextSequence ==
    /\ pc = "seq"
    /\ Len(parsedSequence) < MaxSeqs
    /\ choices + 1 <= ChoicesOf(docClass)
    /\ choices' = choices + 1
    /\ parsedSequence' = Append(parsedSequence, <<>>)
    /\ doc' = [doc EXCEPT !.n = @ + 1, !.seqs = Append(@, [at |-> doc.n + 1])]
    /\ UNCHANGED <<graceQueue, prev, pass, pc, docClass, numParts, numMeasures, measureIdx, partIdx, curKeySignature,
                   prevKeySignature, curTimeSignature, clefsArr, clefsAdded, globalMeasInfo,
                   globalMeasInfos, beams, slurs, ties, noteIDs, stave, queues, lineQueues,
                   curPosition, factory, outcome, events, beamInfo, beamLog, spanLog, placeLog>>

\* -------------------------------------------------- end of a part-measure
SpanRecord(kind, e, from, to) == [kind |-> kind, decl |-> e.decl, by |-> e.by, from |-> from, to |-> to]

SlurRecords(s) ==
    [k \in 1..Len(DoneSpanIdx(s)) |->
        SpanRecord("slur", s.ids[DoneSpanIdx(s)[k]], NewSlursVF(s)[k].from, NewSlursVF(s)[k].to)]

TieRecords(t) ==
    [k \in 1..Len(DoneSpanIdx(t)) |->
        SpanRecord("tie", t.ids[DoneSpanIdx(t)[k]], NewTiesVF(t)[k].from, NewTiesVF(t)[k].to)]

BeamRecords(b, info) ==
    [k \in 1..Len(DoneBeamIdx(b)) |->
        [decl  |-> info[DoneBeamIdx(b)[k]].decl,
         m     |-> info[DoneBeamIdx(b)[k]].m,
         p     |-> info[DoneBeamIdx(b)[k]].p,
         k     |-> info[DoneBeamIdx(b)[k]].k,
         notes |-> b.partial[DoneBeamIdx(b)[k]],
         made  |-> BeamIsMaterialized(b.partial[DoneBeamIdx(b)[k]])]]

\* the bounding box of a stave or a voice: its height, and the distance
\* between the staves of a system
boundingBoxHeight == 100
spaceBetweenStaves == 120

\* getBoundingBox of a stave reaches from the y of the stave down; that of
\* the voices of a part-measure may begin above it and may be higher
defaultBox == [top |-> 0, h |-> boundingBoxHeight]
VoiceBoxes(c) ==
    IF c = "canvas"
    THEN {defaultBox, [top |-> 0, h |-> 3 * boundingBoxHeight], [top |-> -40, h |-> boundingBoxHeight]}
    ELSE {defaultBox}

\* the loop body over parts, from the return of getSequences on
EndPart ==
    /\ pc = "seq"
    /\ IF graceQueue # <<>>
       THEN \* getSequences: grace notes were not resolved
            /\ outcome' = Thrown("MNXParseError", "grace", Len(graceQueue))
            /\ pc' = "aborted"
            /\ UNCHANGED <<beams, beamInfo, beamLog, slurs, ties, factory, spanLog, queues,
                           partIdx, choices, doc>>
       ELSE /\ beams' = UpdateBeamsVF(beams)
            /\ beamInfo' = Pick(beamInfo, KeepBeamIdx(beams))
            /\ beamLog' = beamLog \o BeamRecords(beams, beamInfo)
            /\ slurs' = UpdateSlursVF(slurs)
            /\ IF TiesVFThrows(ties)
               THEN \* ReferenceError: partial is not defined
                    /\ factory' = [factory EXCEPT !.beams = @ \o NewBeamsVF(beams),
                                                  !.curves = @ \o NewSlursVF(slurs)]
                    /\ spanLog' = spanLog \o SlurRecords(slurs)
                    /\ outcome' = Thrown("ReferenceError", "partial", 0)
                    /\ pc' = "aborted"
                    /\ UNCHANGED <<ties, queues, partIdx, choices, doc>>
               ELSE /\ factory' = [factory EXCEPT !.beams = @ \o NewBeamsVF(beams),
                                                  !.curves = @ \o NewSlursVF(slurs),
                                                  !.ties = @ \o NewTiesVF(ties)]
                    /\ spanLog' = spanLog \o SlurRecords(slurs) \o TieRecords(ties)
                    /\ ties' = UpdateTiesVF(ties)
                    /\ \E cw \in ContentWidths(docClass), box \in VoiceBoxes(docClass) :
                         /\ choices + Cost(cw # defaultContentWidth) + Cost(box # defaultBox)
                               <= ChoicesOf(docClass)
                         /\ choices' = choices + Cost(cw # defaultContentWidth) + Cost(box # defaultBox)
                         /\ doc' = [doc EXCEPT !.n = @ + 1,
                                               !.widths = Append(@, [at |-> doc.n + 1, cw |-> cw, box |-> box])]
                         /\ queues' = [queues EXCEPT
                            !.queues[partIdx + 1].staves = Append(@, stave),
                            !.queues[partIdx + 1].voices =
                                Append(@, [notes |-> parsedSequence, minTotalWidth |-> cw, box |-> box])]
                    /\ partIdx' = partIdx + 1
                    /\ pc' = IF partIdx + 1 < numParts THEN "part" ELSE "endmeasure"
                    /\ UNCHANGED outcome
    /\ UNCHANGED <<prev, pass, docClass, numParts, numMeasures, measureIdx, curKeySignature,
                   prevKeySignature, curTimeSignature, clefsArr, clefsAdded, globalMeasInfo,
                   globalMeasInfos, noteIDs, stave, parsedSequence, graceQueue, lineQueues,
                   curPosition, events, placeLog>>

\* ----------------------------------------------------------------- layout
\* Stave.getNoteStartX of a stave at x = 0: a left padding plus the header
\* elements the stave carries at the time of the call
staveStartPadding == 20
modifierWidth == 30
NoteStartX(st) == staveStartPadding + modifierWidth * Len(st.mods)

ThisPartWidth(q, i) ==
    NoteStartX(q.staves[i]) + (1 + measureWidthAestheticFactor) * q.voices[i].minTotalWidth

\* a variant that takes the width of the first part
FirstPartWidth(qs, i, j) == ThisPartWidth(qs[1], i)

RECURSIVE MaxPartWidth(_, _, _)
\* the loop that raises requiredWidth to the widest part (j counts the parts left)
MaxPartWidth(qs, i, j) ==
    IF j = 0 THEN -1
    ELSE Max2(MaxPartWidth(qs, i, j - 1), ThisPartWidth(qs[j], i))

\* a variant without the upper clamp
ClampWidthFromBelowOnly(w) == IF w < minMeasureWidth THEN minMeasureWidth ELSE w

\* the two clamps
ClampWidth(w) ==
    LET w1 == IF w > defaultSheetWidth THEN SafeSheetWidth ELSE w
    IN IF w1 < minMeasureWidth THEN minMeasureWidth ELSE w1

RequiredWidth(qs, i) ==
    ClampWidth(IF Len(qs) = 0 THEN testMeasureWidth ELSE MaxPartWidth(qs, i, Len(qs)))

\* a variant that tests against the safety-padded width
NeedsReflowPadded(x, requiredWidth) == x + requiredWidth > SafeSheetWidth

\* the reflow test
NeedsReflow(x, requiredWidth) == x + requiredWidth > defaultSheetWidth

\* a variant that justifies to the full sheet width
TrueWidthNumUnpadded(w) == defaultSheetWidth * w

\* scalingFactor * width, as the exact fraction num / den
TrueWidthNum(w) == SafeSheetWidth * w

\* flushLine: the systems emitted for the line, left to right
LineSystems(lq, totalWidth, ypos) ==
    [i \in 1..lq.size |->
        LET xNum == SumSeq([k \in 1..(i - 1) |-> TrueWidthNum(lq.queues[1].staves[k].width)])
            wNum == TrueWidthNum(lq.queues[1].staves[i].width)
        IN [xNum |-> xNum, y |-> ypos, wNum |-> wNum, den |-> totalWidth,
            connector |-> i = 1,
            staves |-> [j \in 1..Len(lq.queues) |->
                          [stave |-> lq.queues[j].staves[i], voices |-> lq.queues[j].voices[i],
                           xNum |-> xNum, y |-> ypos, wNum |-> wNum]]]]

\* flushLine: the bounding boxes looked at for a line, in the order of the
\* loops: the measures, the parts of a measure and, for a part, its voices
\* and then its stave; ybase is the offset of the stave within the system
LineBoxes(lq, ypos) ==
    [k \in 1..(lq.size * Len(lq.queues) * 2) |->
        LET i   == (k - 1) \div (2 * Len(lq.queues)) + 1
            j   == ((k - 1) % (2 * Len(lq.queues))) \div 2 + 1
            box == IF (k - 1) % 2 = 0 THEN lq.queues[j].voices[i].box ELSE defaultBox
        IN [y |-> ypos + box.top, ybase |-> (j - 1) * spaceBetweenStaves, h |-> box.h]]

\* testNextLineY (kept in units; (1 + measureHeightSafetyFactor) * h is
\* h * (10 + tenths) / 10)
TestNextLineY(bb) == bb.y + bb.ybase + (bb.h * (10 + measureHeightSafetyFactorTenths)) \div 10

\* a variant that keeps the value of the box looked at last
RaisedToLast(nextLineY, test) == test

\* if (testNextLineY > nextLineY) nextLineY = testNextLineY
Raised(nextLineY, test) == IF test > nextLineY THEN test ELSE nextLineY

\* if (nextLineY > height) resize(defaultSheetWidth, testNextLineY)
Resized(height, nextLineY, test) == IF nextLineY > height THEN test ELSE height

\* the callback over the boxes of the line, from box k on
RECURSIVE ScanBoxes(_, _, _)
ScanBoxes(boxes, k, acc) ==
    IF k > Len(boxes) THEN acc
    ELSE ScanBoxes(boxes, k + 1,
            [nextLineY |-> Raised(acc.nextLineY, TestNextLineY(boxes[k])),
             height    |-> Resized(acc.height, Raised(acc.nextLineY, TestNextLineY(boxes[k])),
                                   TestNextLineY(boxes[k]))])

\* flushLine: the y-position where the next line starts
NextLineY(lq, ypos) ==
    ScanBoxes(LineBoxes(lq, ypos), 1, [nextLineY |-> 0, height |-> 0]).nextLineY

\* flushLine: the height of the canvas after the line
CanvasHeight(lq, ypos, height) ==
    ScanBoxes(LineBoxes(lq, ypos), 1, [nextLineY |-> 0, height |-> height]).height

\* a variant that resets the size and keeps the lists
ClearQueuesSizeOnly(q) == [q EXCEPT !.size = 0]

\* every queue replaced by a copy of queueTemplate, the size set to 0
ClearQueues(q) == [size |-> 0, queues |-> [j \in 1..Len(q.queues) |-> queueTemplate]]

\* a variant that emits the systems and leaves the line queue as it was
FlushLineWithoutClearing(L) ==
    [L EXCEPT !.systems = @ \o LineSystems(L.lq, L.pos.x, L.pos.y),
              !.pos = [x |-> 0, y |-> NextLineY(L.lq, L.pos.y)],
              !.height = CanvasHeight(L.lq, L.pos.y, L.height)]

\* what processQueues has done so far: L carries position, line queue,
\* systems and the history of placements
FlushLine(L) ==
    [L EXCEPT !.systems = @ \o LineSystems(L.lq, L.pos.x, L.pos.y),
              !.pos = [x |-> 0, y |-> NextLineY(L.lq, L.pos.y)],
              !.height = CanvasHeight(L.lq, L.pos.y, L.height),
              !.lq = ClearQueues(L.lq)]

\* a variant that never repeats the clef
PlacedStaveWithoutClef(st, attribs, j, requiredWidth, reflowed) ==
    [st EXCEPT
        !.width = requiredWidth,
        !.mods = @
            \o (IF attribs.timeChange # NoId THEN <<Modifier("time", attribs.timeChange, "")>> ELSE <<>>)
            \o (IF attribs.keyChange # <<>>
                    THEN <<Modifier("key", attribs.keyChange[2], attribs.keyChange[1])>>
                ELSE IF reflowed THEN <<Modifier("key", attribs.startKey, "")>> ELSE <<>>),
        !.endBar = IF attribs.end THEN "end" ELSE @]

\* the header elements processQueues adds to the stave of part j
PlacedStave(st, attribs, j, requiredWidth, reflowed) ==
    [st EXCEPT
        !.width = requiredWidth,
        !.mods = @
            \o (IF attribs.timeChange # NoId THEN <<Modifier("time", attribs.timeChange, "")>> ELSE <<>>)
            \o (IF attribs.keyChange # <<>>
                    THEN <<Modifier("key", attribs.keyChange[2], attribs.keyChange[1])>>
                ELSE IF reflowed THEN <<Modifier("key", attribs.startKey, "")>> ELSE <<>>)
            \o (IF reflowed /\ ~attribs.startClefs.clefsAdded[j]
                    THEN <<Modifier("clef", attribs.startClefs.clefs[j], "")>> ELSE <<>>),
        !.endBar = IF attribs.end THEN "end" ELSE @]

\* a variant that advances the cursor by the width of a fresh stave
AdvanceXByTestWidth(x, requiredWidth) == x + testMeasureWidth

\* position.x += requiredWidth
AdvanceX(x, requiredWidth) == x + requiredWidth

\* one iteration of the loop over the measures of the pending queue
PlaceMeasure(L, q, attribs, i) ==
    LET requiredWidth == RequiredWidth(q.queues, i)
        reflowed == NeedsReflow(L.pos.x, requiredWidth)
        L1 == IF reflowed THEN FlushLine(L) ELSE L
    IN [L1 EXCEPT
          !.lq = [size   |-> L1.lq.size + 1,
                  queues |-> [j \in 1..Len(q.queues) |->
                      [staves |-> Append(L1.lq.queues[j].staves,
                                         PlacedStave(q.queues[j].staves[i], attribs[i], j,
                                                     requiredWidth, reflowed)),
                       voices |-> Append(L1.lq.queues[j].voices, q.queues[j].voices[i])]]],
          !.pos.x = AdvanceX(L1.pos.x, requiredWidth),
          !.placed = Append(@, [m |-> q.queues[1].staves[i].m, requiredWidth |-> requiredWidth,
                                reflowed |-> reflowed, xBefore |-> L.pos.x,
                                lineBefore |-> L.lq.size,
                                measured |-> MaxPartWidth(q.queues, i, Len(q.queues))])]

\* a variant that places the first pending measure only
ProcessQueuesFirstOnly(L, q, attribs, i) ==
    IF i > q.size THEN L ELSE PlaceMeasure(L, q, attribs, i)

RECURSIVE ProcessQueues(_, _, _, _)
ProcessQueues(L, q, attribs, i) ==
    IF i > q.size THEN L
    ELSE ProcessQueues(PlaceMeasure(L, q, attribs, i), q, attribs, i + 1)

Layout ==
    [pos |-> curPosition, lq |-> lineQueues, systems |-> factory.systems, placed |-> placeLog,
     height |-> factory.height]

\* a variant that does not look at the ties
BeamsAndSlursEmpty(b, s, t) == Len(b.ids) = 0 /\ Len(s.ids) = 0

\* the test that lets the pending queue be processed
AllContinuablesEmpty(b, s, t) == Len(b.ids) = 0 /\ Len(s.ids) = 0 /\ Len(t.ids) = 0

\* the part of the map callback after the loop over parts
EndMeasure ==
    /\ pc = "endmeasure"
    /\ LET info  == [globalMeasInfo EXCEPT
                        !.startKey = curKeySignature,
                        !.startClefs = [clefs |-> clefsArr, clefsAdded |-> clefsAdded]]
           q1    == [queues EXCEPT !.size = @ + 1]
           infos == Append(globalMeasInfos, info)
       IN IF AllContinuablesEmpty(beams, slurs, ties)
          THEN LET L == ProcessQueues(Layout, q1, infos, 1)
               IN /\ curPosition' = L.pos
                  /\ lineQueues' = L.lq
                  /\ factory' = [factory EXCEPT !.systems = L.systems, !.height = L.height]
                  /\ placeLog' = L.placed
                  /\ queues' = ClearQueues(q1)
                  /\ globalMeasInfos' = <<>>
          ELSE /\ queues' = q1
               /\ globalMeasInfos' = infos
               /\ UNCHANGED <<curPosition, lineQueues, factory, placeLog>>
    /\ measureIdx' = measureIdx + 1
    /\ pc' = "measure"
    /\ UNCHANGED <<graceQueue, doc, prev, pass, docClass, choices, numParts, numMeasures, partIdx, curKeySignature, prevKeySignature,
                   curTimeSignature, clefsArr, clefsAdded, globalMeasInfo, beams, slurs, ties,
                   noteIDs, stave, parsedSequence, outcome, events, beamInfo, beamLog, spanLog>>

\* a variant that forgets the slurs
EndOfScoreErrorWithoutSlurs(b, s, t) ==
    IF Len(b.ids) # 0 THEN Thrown("MNXParseError", "beam", Len(b.ids))
    ELSE IF Len(t.ids) # 0 THEN Thrown("MNXParseError", "tie", Len(t.ids))
    ELSE NoError

\* the error thrown after the last measure, if any
EndOfScoreError(b, s, t) ==
    IF Len(b.ids) # 0 THEN Thrown("MNXParseError", "beam", Len(b.ids))
    ELSE IF Len(s.ids) # 0 THEN Thrown("MNXParseError", "slur", Len(s.ids))
    ELSE IF Len(t.ids) # 0 THEN Thrown("MNXParseError", "tie", Len(t.ids))
    ELSE NoError

\* parseMNXv1 after measuresToFactory: vf.draw() runs only if nothing was thrown
DrawnAlways(err) == 1
Drawn(err) == IF err = NoError THEN 1 ELSE 0

\* measuresToFactory after the map over the measures, then the rest of parseMNXv1
Finish ==
    /\ pc = "measure"
    /\ measureIdx = numMeasures
    /\ LET L == FlushLine(Layout)
           err == EndOfScoreError(beams, slurs, ties)
       IN /\ lineQueues' = L.lq
          /\ factory' = [factory EXCEPT !.systems = L.systems, !.height = L.height,
                                        !.drawn = @ + Drawn(err)]
          /\ outcome' = err
    /\ pc' = "done"
    /\ doc' = [doc EXCEPT !.ended = TRUE]
    /\ UNCHANGED <<graceQueue, prev, pass, docClass, choices, numParts, numMeasures, measureIdx, partIdx, curKeySignature,
                   prevKeySignature, curTimeSignature, clefsArr, clefsAdded, globalMeasInfo,
                   globalMeasInfos, beams, slurs, ties, noteIDs, stave, parsedSequence, queues,
                   curPosition, events, beamInfo, beamLog, spanLog, placeLog>>

\* convertMNX is called again on the same page: parseMNXv1 builds a new
\* factory and measuresToFactory new trackers, queues and position; the
\* page-wide noteIDs is whatever the last translation left
NextPass ==
    /\ pc \in {"done", "aborted"}
    /\ pass < MaxPasses
    /\ choices + 1 <= ChoicesOf(docClass)
    /\ choices' = choices + 1
    /\ pass' = pass + 1
    /\ prev' = [doc |-> doc, outcome |-> outcome,
                 widths |-> [k \in 1..Len(placeLog) |-> placeLog[k].requiredWidth]]
    /\ doc' = NewDoc(numParts, numMeasures)
    /\ noteIDs' \in {noteIDs} \cup LeftoverNoteIDs
    /\ pc' = "start"
    /\ measureIdx' = 0
    /\ partIdx' = 0
    /\ curKeySignature' = CMajor
    /\ prevKeySignature' = NoId
    /\ curTimeSignature' = commonTime
    /\ clefsArr' = [j \in 1..numParts |-> "treble"]
    /\ clefsAdded' = [j \in 1..numParts |-> FALSE]
    /\ globalMeasInfo' = NoId
    /\ globalMeasInfos' = <<>>
    /\ beams' = continuableInfosTemplate
    /\ slurs' = continuableInfosTemplate
    /\ ties' = continuableInfosTemplate
    /\ stave' = NoId
    /\ parsedSequence' = <<>>
    /\ graceQueue' = <<>>
    /\ queues' = [size |-> 0, queues |-> [j \in 1..numParts |-> queueTemplate]]
    /\ lineQueues' = [size |-> 0, queues |-> [j \in 1..numParts |-> queueTemplate]]
    /\ curPosition' = positionTemplate
    /\ factory' = NewFactory
    /\ outcome' = NoError
    /\ events' = <<>>
    /\ beamInfo' = <<>>
    /\ beamLog' = <<>>
    /\ spanLog' = <<>>
    /\ placeLog' = <<>>
    /\ UNCHANGED <<docClass, numParts, numMeasures>>

Next ==
    ParseHead \/ BeginMeasure \/ BeginPart \/ Event \/ NextSequence \/ EndPart \/ EndMeasure \/ Finish
    \/ NextPass

Spec == Init /\ [][Next]_vars

\* the same program over one family of documents
InitBeams == Init /\ docClass = "beams"
SpecBeams == InitBeams /\ [][Next]_vars
InitSlurs == Init /\ docClass = "slurs"
SpecSlurs == InitSlurs /\ [][Next]_vars
InitTies == Init /\ docClass = "ties"
SpecTies == InitTies /\ [][Next]_vars
InitLayout == Init /\ docClass = "layout"
SpecLayout == InitLayout /\ [][Next]_vars
InitSpans == Init /\ docClass \in {"slurs", "ties"}
SpecSpans == InitSpans /\ [][Next]_vars
InitContent == Init /\ docClass = "content"
SpecContent == InitContent /\ [][Next]_vars
InitCanvas == Init /\ docClass = "canvas"
SpecCanvas == InitCanvas /\ [][Next]_vars
InitQueues == Init /\ docClass \in {"slurs", "ties", "layout"}
SpecQueues == InitQueues /\ [][Next]_vars
InitContinuations == Init /\ docClass \in {"beams", "slurs", "ties"}
SpecContinuations == InitContinuations /\ [][Next]_vars

\* ================================================================ claims
\* (m1, p1) is translated no later than (m2, p2): measures outside, parts inside
NoLater(m1, p1, m2, p2) == m1 < m2 \/ (m1 = m2 /\ p1 <= p2)

Increasing(s) == \A i, k \in 1..Len(s) : i < k => s[i] < s[k]

\* the pass is between part-measures: the three updateXVF calls of the
\* last part-measure have returned
BetweenPartMeasures == pc \in {"part", "endmeasure", "measure", "done"}

MadeBeams == SelectSeq(beamLog, LAMBDA r : r.made)

\* a one-part, one-measure document of two note events whose only beam
\* declaration is decl, translated to the end
TwoNoteDocument(decl, id1, id2) ==
    /\ pc = "done" /\ numParts = 1 /\ numMeasures = 1
    /\ Len(events) = 2 /\ events[1].kind = "notes" /\ events[2].kind = "notes"
    /\ events[1].id = id1 /\ events[2].id = id2
    /\ [i \in 1..(Len(beamLog) + Len(beamInfo)) |->
            IF i <= Len(beamLog) THEN beamLog[i].decl ELSE beamInfo[i - Len(beamLog)].decl] = <<decl>>

\* C1 as stated: every beam whose declared ids have all been observed is
\* materialized, with as many members as ids were declared.
C1_EveryCompletedBeamMaterialized ==
    \A i \in 1..Len(beamLog) :
        beamLog[i].made /\ Len(beamLog[i].notes) = Len(beamLog[i].decl)

\* C1 amended: a beam whose declared ids have all been observed while it was
\* open is removed by the next updateBeamsVF; it becomes exactly one Beam
\* object if and only if it declares at least two distinct ids, and then
\* its members are one handle per distinct declared id, in the order the
\* events were observed; a beam of fewer than two distinct ids is dropped.
\* The two-note document with a beam over both ids gives one beam of two
\* handles and no error.
C1_BeamsMaterialized ==
    /\ \A i \in 1..Len(beamLog) :
         LET r == beamLog[i]
         IN /\ r.made <=> Cardinality(Range(r.decl)) >= 2
            /\ Len(r.notes) = Cardinality(Range(r.decl))
            /\ Increasing(r.notes)
            /\ {events[h].id : h \in Range(r.notes)} = Range(r.decl)
            /\ \A h \in Range(r.notes) : NoLater(r.m, r.p, events[h].m, events[h].p)
            /\ \A k \in 1..Len(beamLog) :
                 k # i => <<r.m, r.p, r.k>> # <<beamLog[k].m, beamLog[k].p, beamLog[k].k>>
    /\ factory.beams = [i \in 1..Len(MadeBeams) |-> MadeBeams[i].notes]
    /\ BetweenPartMeasures => \A i \in 1..Len(beams.ids) : beams.ids[i] # <<>>
    /\ TwoNoteDocument(<<"a", "b">>, "a", "b") =>
         factory.beams = << <<1, 2>> >> /\ outcome = NoError

C1_Witness ==
    /\ TwoNoteDocument(<<"a", "b">>, "a", "b")
    /\ factory.beams = << <<1, 2>> >>
    /\ outcome = NoError

OneSided(decl) == decl \in {"outgoing", "incoming"}

\* event h carries a slur (kind = "slur") or a tie (kind = "tie") declared
\* with the given location flag
DeclaresLocation(h, kind, flag) ==
    IF kind = "slur"
    THEN \E k \in 1..Len(events[h].slurs) :
            events[h].slurs[k] = [kind |-> "location", v |-> flag]
    ELSE \E k \in 1..Len(events[h].notes) :
            events[h].notes[k].tie = [kind |-> "location", v |-> flag]

Complement(flag) == IF flag = "outgoing" THEN "incoming" ELSE "outgoing"

DeclaredBeams ==
    {[decl |-> beamLog[i].decl, m |-> beamLog[i].m, p |-> beamLog[i].p, k |-> beamLog[i].k] :
        i \in 1..Len(beamLog)} \cup Range(beamInfo)

\* a declared id of the beam is borne by no event translated after the declaration
BeamNeverObserved(b) ==
    \E id \in Range(b.decl) :
        ~\E h \in 1..Len(events) : events[h].id = id /\ NoLater(b.m, b.p, events[h].m, events[h].p)

\* the targeted slurs declared so far: <<declaring event, target id>>
TargetedSlurs ==
    {d \in (1..Len(events)) \X EventIds :
        \E k \in 1..Len(events[d[1]].slurs) :
            events[d[1]].slurs[k] = [kind |-> "target", v |-> d[2]]}

SlurNeverObserved(d) == ~\E h \in 1..Len(events) : h > d[1] /\ events[h].id = d[2]

\* the targeted ties declared so far: <<declaring event, note index, target id>>
TargetedTies ==
    UNION {{<<h, k, events[h].notes[k].tie.v>> :
                k \in {j \in 1..Len(events[h].notes) : events[h].notes[j].tie.kind = "target"}} :
            h \in 1..Len(events)}

\* no later call of updateTiesWithEvent was handed the target id
TieNeverObserved(d) == ~\E h \in 1..Len(events) : h > d[1] /\ Includes(events[h].obs, d[3])

NumBeamsNeverObserved == Cardinality({b \in DeclaredBeams : BeamNeverObserved(b)})
NumSlursNeverObserved == Cardinality({d \in TargetedSlurs : SlurNeverObserved(d)})
NumTiesNeverObserved == Cardinality({d \in TargetedTies : TieNeverObserved(d)})

\* C3 as stated: when the end of the score is reached with continuations
\* whose endpoint was never observed, an MNXParseError states their number;
\* when there is none, no error is raised.
C3_ErrorStatesNumberOfUnresolved ==
    pc = "done" =>
        LET n == NumBeamsNeverObserved + NumSlursNeverObserved + NumTiesNeverObserved
        IN IF n > 0 THEN outcome.class = "MNXParseError" /\ outcome.count = n
           ELSE outcome = NoError

\* C3 amended: when the end of the score is reached, an MNXParseError is
\* raised if and only if some declared beam, slur or tie has an endpoint
\* that was never observed after its declaration; the message names one
\* kind only, the first of beams, slurs, ties that has unresolved entries,
\* and states the number of unresolved continuations of that kind.  A
\* pass that a ReferenceError or an unsupported-feature error has ended
\* before the end of the score reports that error and no structural error.
C3_ErrorNamesFirstUnresolvedKind ==
    /\ pc = "done" =>
         outcome =
            IF NumBeamsNeverObserved > 0
                THEN [class |-> "MNXParseError", what |-> "beam", count |-> NumBeamsNeverObserved]
            ELSE IF NumSlursNeverObserved > 0
                THEN [class |-> "MNXParseError", what |-> "slur", count |-> NumSlursNeverObserved]
            ELSE IF NumTiesNeverObserved > 0
                THEN [class |-> "MNXParseError", what |-> "tie", count |-> NumTiesNeverObserved]
            ELSE [class |-> "none", what |-> "", count |-> 0]
    /\ pc = "aborted" => outcome.class \in {"ReferenceError", "UnsupportedFeatureError"}
    /\ pc \notin {"done", "aborted"} => outcome.class = "none"

\* the end of the score is reached with one slur whose target never came
C3_Witness ==
    /\ pc = "done"
    /\ NumBeamsNeverObserved = 0 /\ NumSlursNeverObserved = 1
    /\ outcome = [class |-> "MNXParseError", what |-> "slur", count |-> 1]

\* C4 as stated: with the second event id taken out of the declaration, the
\* two-event document ends with an error that reports one unresolved beam.
C4_ShortenedBeamIsUnresolved ==
    TwoNoteDocument(<<"a">>, "a", "b") =>
        outcome = [class |-> "MNXParseError", what |-> "beam", count |-> 1]

\* C4 amended: in a one-part, one-measure document of two events, a beam
\* declared over the first event id alone closes with one member and is
\* dropped: no beam object and no error.  The document ends with an error
\* reporting one unresolved beam when the declaration keeps both ids and
\* the second id is borne by no event.
C4_ShortenedBeamIsDropped ==
    /\ TwoNoteDocument(<<"a">>, "a", "b") =>
         /\ outcome = [class |-> "none", what |-> "", count |-> 0]
         /\ factory.beams = <<>>
         /\ Len(beams.ids) = 0
    /\ \A id2 \in {"a", DefaultEventID} :
         TwoNoteDocument(<<"a", "b">>, "a", id2) =>
            /\ outcome = [class |-> "MNXParseError", what |-> "beam", count |-> 1]
            /\ factory.beams = <<>>
            /\ beams.ids = << <<"b">> >>

\* the two-event document whose beam names the first event only, translated
C4_Witness ==
    /\ TwoNoteDocument(<<"a">>, "a", "b")
    /\ Len(beamLog) = 1 /\ beamLog[1].notes = <<1>> /\ ~beamLog[1].made
    /\ outcome.class = "none"

\* the measures in which the continuations still open were declared
OpenSince ==
    {beamInfo[i].m : i \in 1..Len(beamInfo)}
    \cup {events[slurs.ids[i].by].m : i \in 1..Len(slurs.ids)}
    \cup {events[ties.ids[i].by].m : i \in 1..Len(ties.ids)}

NumOpen == Len(beams.ids) + Len(slurs.ids) + Len(ties.ids)

\* C5: processQueues runs after a measure if and only if the three
\* trackers are empty: at every measure boundary the pending queue is
\* non-empty exactly when some continuation is open, the measures
\* translated so far are the width-finalized ones followed by the pending
\* ones, and no measure translated since a still open continuation was
\* declared has been width-finalized.
C5_QueueProcessedIffNothingOpen ==
    /\ pc \in {"measure", "done"} =>
         /\ queues.size > 0 <=> NumOpen > 0
         /\ Len(placeLog) + queues.size = measureIdx
         /\ Len(globalMeasInfos) = queues.size
    /\ \A m \in OpenSince : \A i \in 1..Len(placeLog) : placeLog[i].m < m
    /\ \A i \in 1..Len(placeLog) : placeLog[i].m = i - 1

\* two measures wait in the pending queue behind an open continuation,
\* after an earlier measure was width-finalized
C5_Witness ==
    /\ pc = "measure" /\ queues.size = 2 /\ Len(placeLog) = 1 /\ NumOpen > 0

\* the systems of the emitted line that lies at height y
LineAt(y) == SelectSeq(factory.systems, LAMBDA sys : sys.y = y)

EmittedLines == {factory.systems[k].y : k \in 1..Len(factory.systems)}

C7_ReflowIffOverflow ==
    /\ \A i \in 1..Len(placeLog) :
         LET r == placeLog[i]
         IN /\ r.reflowed <=> r.xBefore + r.requiredWidth > defaultSheetWidth
            /\ r.xBefore =
                 IF i = 1 THEN 0
                 ELSE (IF placeLog[i - 1].reflowed THEN 0 ELSE placeLog[i - 1].xBefore)
                      + placeLog[i - 1].requiredWidth
    /\ \A k \in 1..Len(factory.systems) :
         factory.systems[k].xNum = 0 <=> (k = 1 \/ placeLog[k].reflowed)
    /\ lineQueues.size > 0 =>
         LET first == Len(placeLog) - lineQueues.size + 1
         IN /\ first = 1 \/ placeLog[first].reflowed
            /\ \A i \in (first + 1)..Len(placeLog) : ~placeLog[i].reflowed
    /\ pc \in {"measure", "part", "seq", "endmeasure"} =>
         curPosition.x = IF Len(placeLog) = 0 THEN 0
                         ELSE (IF placeLog[Len(placeLog)].reflowed THEN 0
                               ELSE placeLog[Len(placeLog)].xBefore)
                              + placeLog[Len(placeLog)].requiredWidth

\* a measure that ends exactly at the sheet width was placed on the line
\* begun by the measures before it
C7_Witness ==
    \E i \in 1..Len(placeLog) :
        /\ placeLog[i].xBefore > 0
        /\ placeLog[i].xBefore + placeLog[i].requiredWidth = defaultSheetWidth
        /\ ~placeLog[i].reflowed
        /\ lineQueues.size = i

\* the staves of part j (1-based) that processQueues has placed, in
\* placement order: those emitted in systems, then those in the line queue
PlacedStaves(j) ==
    [k \in 1..Len(factory.systems) |-> factory.systems[k].staves[j].stave]
    \o lineQueues.queues[j].staves

HasModifier(st, t, v) == \E k \in 1..Len(st.mods) : st.mods[k].t = t /\ st.mods[k].v = v

\* C8: the first measure of every emitted line but the first is a
\* reflowed measure; every reflowed measure carries on every part a key
\* signature showing the key in effect at that measure (its own key change
\* included) and, on each part without an explicit clef in that measure,
\* the clef in effect for that part; the first system of every emitted
\* line, and no other, gets the connector.
C8_ReflowedMeasureRepeatsKeyAndClef ==
    /\ \A k \in 1..Len(factory.systems) :
         LET sys == factory.systems[k]
             startsLine == k = 1 \/ factory.systems[k - 1].y # sys.y
         IN /\ sys.connector <=> startsLine
            /\ startsLine /\ k > 1 => placeLog[k].reflowed
    /\ \A j \in 1..numParts :
         /\ Len(PlacedStaves(j)) = Len(placeLog)
         /\ \A i \in 1..Len(placeLog) :
              LET st == PlacedStaves(j)[i]
              IN placeLog[i].reflowed =>
                   /\ Cardinality({k \in 1..Len(st.mods) : st.mods[k].t = "key"}) = 1
                   /\ HasModifier(st, "key", st.keyInEffect)
                   /\ Cardinality({k \in 1..Len(st.mods) : st.mods[k].t = "clef"}) = 1
                   /\ HasModifier(st, "clef", st.clefInEffect)

\* a second line was emitted whose first measure shows, on a part without
\* an explicit clef, a clef and a key that were changed in an earlier measure
C8_Witness ==
    \E k \in 2..Len(factory.systems) :
        /\ factory.systems[k].connector
        /\ \E j \in 1..numParts :
             LET st == factory.systems[k].staves[j].stave
             IN /\ ~st.explicitClef /\ st.clefInEffect = "bass" /\ HasModifier(st, "clef", "bass")
                /\ st.keyInEffect = "G" /\ HasModifier(st, "key", "G")

\* C9 as stated: every requiredWidth lies in [minMeasureWidth,
\* defaultSheetWidth * (1 - sheetWidthSafetyFactor)].
C9_WidthWithinPaddedSheet ==
    \A i \in 1..Len(placeLog) :
        /\ minMeasureWidth <= placeLog[i].requiredWidth
        /\ placeLog[i].requiredWidth * 100 <= defaultSheetWidth * (100 - sheetWidthSafetyFactorPct)

\* the staves of part j (1-based) wherever they are: emitted, in the line
\* queue or in the pending queue
AllStaves(j) == PlacedStaves(j) \o queues.queues[j].staves

\* C10: the staves created so far are, on every part, the measures
\* translated so far, each once and in document order, the emitted ones
\* first, then the line queue, then the pending queue; when translation
\* completes without error every measure of the document has been emitted in
\* a system and both queues are empty.
C10_EveryMeasureEmittedOnce ==
    /\ \A j \in 1..numParts :
         /\ \A i \in 1..Len(AllStaves(j)) : AllStaves(j)[i].m = i - 1 /\ AllStaves(j)[i].p = j - 1
         /\ pc \in {"measure", "done"} => Len(AllStaves(j)) = measureIdx
         /\ Len(lineQueues.queues[j].staves) = lineQueues.size
         /\ Len(queues.queues[j].staves) \in {queues.size, queues.size + 1}
    /\ \A k \in 1..Len(factory.systems) : Len(factory.systems[k].staves) = numParts
    /\ pc = "done" /\ outcome.class = "none" =>
         /\ Len(factory.systems) = numMeasures
         /\ queues.size = 0 /\ lineQueues.size = 0
         /\ \A j \in 1..numParts :
              lineQueues.queues[j].staves = <<>> /\ queues.queues[j].staves = <<>>

\* a document of three measures on two lines was translated without error
C10_Witness ==
    /\ pc = "done" /\ outcome.class = "none" /\ numMeasures = 3
    /\ Len(factory.systems) = 3
    /\ factory.systems[1].y # factory.systems[3].y

\* C11: once the end of the document is reached the line queue has
\* been flushed, whether or not a measure overflowed: every measure that
\* processQueues placed is in an emitted system and the line queue is
\* empty; and if the pending queue or a tracker is non-empty at that point,
\* the pass ends in a structural error.
C11_FinalFlushAndTerminalError ==
    pc = "done" =>
        /\ lineQueues.size = 0
        /\ \A j \in 1..numParts :
             lineQueues.queues[j].staves = <<>> /\ lineQueues.queues[j].voices = <<>>
        /\ Len(factory.systems) = Len(placeLog)
        /\ (queues.size > 0
            \/ Len(beams.ids) > 0 \/ Len(slurs.ids) > 0 \/ Len(ties.ids) > 0)
           => outcome.class = "MNXParseError"

\* two measures that never overflowed the line were emitted by the final flush
C11_Witness ==
    /\ pc = "done"
    /\ Len(placeLog) = 2 /\ \A i \in 1..2 : ~placeLog[i].reflowed
    /\ Len(factory.systems) = 2
    /\ factory.systems[1].y = factory.systems[2].y
    /\ lineQueues.size = 0

\* how many slur entries event h pushed: one per declaration, a repeated
\* target within the event being pushed once
SlurPushes(h) == Cardinality(Range(events[h].slurs))

\* how many tie entries event h pushed: one per note that declares a tie
TiePushes(h) ==
    Cardinality({k \in 1..Len(events[h].notes) : events[h].notes[k].tie.kind # "none"})

\* the three updateXVF calls of the last part-measure have been made:
\* they have returned, or updateTiesVF has thrown
AfterUpdateVF ==
    \/ pc \in {"part", "endmeasure", "measure", "done"}
    \/ pc = "aborted" /\ outcome.what = "partial"

\* C12: after every updateBeamsVF / updateSlursVF / updateTiesVF call
\* no live entry is fully resolved; every declared entry is either live or
\* was removed once, never both and never twice, and was materialized at
\* most once; ids and partial lists stay index-aligned.
C12_NoResolvedEntryStaysLive ==
    /\ Len(beams.ids) = Len(beams.partial) /\ Len(beams.ids) = Len(beamInfo)
    /\ Len(slurs.ids) = Len(slurs.partial)
    /\ Len(ties.ids) = Len(ties.partial)
    /\ \A i \in 1..Len(beams.ids) :
         Range(beams.ids[i]) \cup {events[h].id : h \in Range(beams.partial[i])}
            = Range(beamInfo[i].decl)
    /\ \A i \in 1..Len(slurs.ids) :
         slurs.ids[i].decl = "target" /\ slurs.ids[i].source = "<absent>"
            => slurs.partial[i][1] = slurs.ids[i].by
    /\ \A i \in 1..Len(ties.ids) :
         ties.ids[i].decl = "target" /\ ties.ids[i].source = "<absent>"
            => ties.partial[i][1].event = ties.ids[i].by
    /\ AfterUpdateVF =>
         /\ \A i \in 1..Len(beams.ids) : Len(beams.ids[i]) > 0
         /\ \A i \in 1..Len(slurs.ids) :
              slurs.ids[i].source # "<absent>" \/ slurs.ids[i].destination # "<absent>"
         /\ \A i \in 1..Len(ties.ids) :
              ties.ids[i].source # "<absent>" \/ ties.ids[i].destination # "<absent>"
    /\ LET key(r) == <<r.m, r.p, r.k>>
       IN /\ \A i, k \in 1..Len(beamLog) : i # k => key(beamLog[i]) # key(beamLog[k])
          /\ \A i, k \in 1..Len(beamInfo) : i # k => key(beamInfo[i]) # key(beamInfo[k])
          /\ \A i \in 1..Len(beamLog), k \in 1..Len(beamInfo) : key(beamLog[i]) # key(beamInfo[k])
    /\ Len(factory.beams) = Cardinality({i \in 1..Len(beamLog) : Len(beamLog[i].notes) > 1})
    /\ Len(factory.curves) = Cardinality({i \in 1..Len(spanLog) : spanLog[i].kind = "slur"})
    /\ Len(factory.ties) = Cardinality({i \in 1..Len(spanLog) : spanLog[i].kind = "tie"})
    /\ \A h \in 1..Len(events) :
         /\ Cardinality({i \in 1..Len(spanLog) : spanLog[i].kind = "slur" /\ spanLog[i].by = h})
            + Cardinality({i \in 1..Len(slurs.ids) : slurs.ids[i].by = h}) = SlurPushes(h)
         /\ Cardinality({i \in 1..Len(spanLog) : spanLog[i].kind = "tie" /\ spanLog[i].by = h})
            + Cardinality({i \in 1..Len(ties.ids) : ties.ids[i].by = h}) = TiePushes(h)

\* C13: a beam whose remaining-id list became empty with fewer than two
\* accumulated members has been removed from the live set, no beam object
\* was created for it, its removal raised no error, and the end-of-score
\* error counts the live beams only.
C13_TrivialBeamDroppedSilently ==
    /\ \A k \in 1..Len(factory.beams) : Len(factory.beams[k]) >= 2
    /\ Len(factory.beams) = Cardinality({i \in 1..Len(beamLog) : Len(beamLog[i].notes) >= 2})
    /\ \A i \in 1..Len(beamLog) :
         Len(beamLog[i].notes) < 2 =>
            /\ \A k \in 1..Len(beamInfo) :
                 <<beamInfo[k].m, beamInfo[k].p, beamInfo[k].k>>
                    # <<beamLog[i].m, beamLog[i].p, beamLog[i].k>>
            /\ pc \notin {"done", "aborted"} => outcome.class = "none"
            /\ pc = "aborted" => outcome.class = "ReferenceError"
    /\ pc = "done" =>
         /\ Len(beams.ids) = Len(beamInfo)
         /\ \A i \in 1..Len(beams.ids) : Len(beams.ids[i]) > 0
         /\ Len(beamInfo) = 0 => outcome.what # "beam"
         /\ Len(beamInfo) > 0 =>
              outcome = [class |-> "MNXParseError", what |-> "beam", count |-> Len(beamInfo)]

\* a beam of one event was dropped and another beam stayed open: the
\* end-of-score error counts one beam
C13_Witness ==
    /\ pc = "done"
    /\ \E i \in 1..Len(beamLog) : Len(beamLog[i].notes) = 1
    /\ factory.beams = <<>>
    /\ outcome = [class |-> "MNXParseError", what |-> "beam", count |-> 1]

\* C14: when the identifier observed equals both the outstanding source
\* and the outstanding destination of an open slur or tie, that one
\* observation clears both sides: a span that targets the id of its own
\* declaring event (or note) has no outstanding side once that event has
\* been observed.
C14_OneObservationClearsBothSides ==
    /\ \A i \in 1..Len(slurs.ids) :
         slurs.ids[i].by <= Len(events) =>
            slurs.ids[i].destination # events[slurs.ids[i].by].id
    /\ \A i \in 1..Len(ties.ids) :
         ties.ids[i].by <= Len(events) =>
            \A k \in 1..Len(events[ties.ids[i].by].obs) :
                ties.ids[i].destination # events[ties.ids[i].by].obs[k]

\* the (source id, target id) pair of the targeted slur declared by event h
SlurPair(h) == <<events[h].id, events[h].slurs[1].v>>

OpenSlursOf(pair) ==
    {i \in 1..Len(slurs.ids) :
        /\ slurs.ids[i].decl = "target" /\ slurs.ids[i].by <= Len(events)
        /\ SlurPair(slurs.ids[i].by) = pair}

MaterializedSlursOf(pair) ==
    {i \in 1..Len(spanLog) :
        /\ spanLog[i].kind = "slur" /\ spanLog[i].decl = "target"
        /\ SlurPair(spanLog[i].by) = pair}

\* C15: however often a targeted slur with the same (source id, target
\* id) pair is declared during a pass, at most one open entry and at most
\* one materialized slur exist for that pair.
C15_DuplicateSlurSuppressed ==
    \A h \in 1..Len(events) :
        Len(events[h].slurs) > 0 /\ events[h].slurs[1].kind = "target" =>
            /\ Cardinality(OpenSlursOf(SlurPair(h))) <= 1
            /\ Cardinality(MaterializedSlursOf(SlurPair(h))) <= 1

\* C16: two distinct events that carry no author-supplied id have
\* distinct effective identifiers, and their unlabeled notes distinct note
\* identifiers.
C16_UnlabeledEventsGetDistinctIds ==
    \A h1, h2 \in 1..Len(events) :
        h1 # h2 /\ events[h1].given = "<none>" /\ events[h2].given = "<none>" =>
            /\ events[h1].id # events[h2].id
            /\ events[h1].kind = "notes" /\ events[h2].kind = "notes" =>
                 \A k1 \in 1..Len(events[h1].notes), k2 \in 1..Len(events[h2].notes) :
                    events[h1].notes[k1].id = "<none>" /\ events[h2].notes[k2].id = "<none>"
                        => events[h1].obs[k1] # events[h2].obs[k2]

\* lexicographic order of triples
LexLeq(a, b) ==
    \/ a[1] < b[1]
    \/ a[1] = b[1] /\ a[2] < b[2]
    \/ a[1] = b[1] /\ a[2] = b[2] /\ a[3] <= b[3]

\* C17 as stated: the events are observed in (part, measure, sequence,
\* content-index) order, the parts outermost.
C17_ObservedPartByPart ==
    \A h1, h2 \in 1..Len(events) :
        h1 < h2 => LexLeq(<<events[h1].p, events[h1].m, events[h1].s>>,
                          <<events[h2].p, events[h2].m, events[h2].s>>)

\* C17 amended: the events are observed by the continuation trackers
\* strictly in (measure, part, sequence, content-index) order: measure by
\* measure, within a measure part by part, within a part-measure sequence
\* by sequence, within a sequence in content order.
C17_ObservedMeasureByMeasure ==
    /\ \A h1, h2 \in 1..Len(events) :
         h1 < h2 => LexLeq(<<events[h1].m, events[h1].p, events[h1].s>>,
                           <<events[h2].m, events[h2].p, events[h2].s>>)
    /\ \A k \in 1..Len(parsedSequence) :
         /\ \A i1, i2 \in 1..Len(parsedSequence[k]) : i1 < i2 => parsedSequence[k][i1] < parsedSequence[k][i2]
         /\ pc = "seq" => \A i \in 1..Len(parsedSequence[k]) :
                /\ events[parsedSequence[k][i]].s = k
                /\ events[parsedSequence[k][i]].m = measureIdx
                /\ events[parsedSequence[k][i]].p = partIdx
    /\ \A i \in 1..Len(beams.partial) :
         \A i1, i2 \in 1..Len(beams.partial[i]) :
            i1 < i2 => beams.partial[i][i1] < beams.partial[i][i2]

\* an event of the second part in the first measure was observed before
\* an event of the first part in the second measure
C17_Witness ==
    \E h1, h2 \in 1..Len(events) :
        /\ h1 < h2
        /\ events[h1].m = 0 /\ events[h1].p = 1
        /\ events[h2].m = 1 /\ events[h2].p = 0

\* ---------------------------------------------------------------------- C18
\* what a pass that stopped after n readings would have read of document d
ReadUpTo(d, n) ==
    [dims |-> d.dims, n |-> n,
     heads |-> SelectSeq(d.heads, LAMBDA e : e.at <= n),
     measures |-> SelectSeq(d.measures, LAMBDA e : e.at <= n),
     parts |-> SelectSeq(d.parts, LAMBDA e : e.at <= n),
     items |-> SelectSeq(d.items, LAMBDA e : e.at <= n),
     seqs |-> SelectSeq(d.seqs, LAMBDA e : e.at <= n),
     widths |-> SelectSeq(d.widths, LAMBDA e : e.at <= n),
     ended |-> FALSE]

\* two passes were given the same document: all that the one that stopped
\* first has read is what the other has read up to there
SameDocument(a, b) ==
    \/ a.n <= b.n /\ [a EXCEPT !.ended = FALSE] = ReadUpTo(b, a.n)
    \/ b.n <= a.n /\ [b EXCEPT !.ended = FALSE] = ReadUpTo(a, b.n)

\* C18: a pass over the document of the previous pass on the same page ends
\* with the same outcome and the same requiredWidth for every measure.
C18_SameDocumentSameOutcome ==
    (pass > 1 /\ pc \in {"done", "aborted"} /\ SameDocument(prev.doc, doc)) =>
        /\ outcome = prev.outcome
        /\ [k \in 1..Len(placeLog) |-> placeLog[k].requiredWidth] = prev.widths

\* ---------------------------------------------------------------------- C19
\* C19: the draw call is issued once, as the last step of a pass that
\* reached the end of the score without an error, and never otherwise; a
\* pass that an error has ended takes no further step.
C19_DrawnIffPassCompleted ==
    /\ factory.drawn = IF pc = "done" /\ outcome = NoError THEN 1 ELSE 0
    /\ outcome # NoError => pc \in {"done", "aborted"}

\* one pass was ended by an error and left nothing drawn, the next one was
\* completed and drawn
C19_Witness ==
    /\ pass = 2
    /\ prev.outcome.class = "UnsupportedFeatureError"
    /\ pc = "done" /\ outcome = NoError /\ factory.drawn = 1

\* ---------------------------------------------------------------------- C20
\* the item that the pass has read last
LastItem == doc.items[Len(doc.items)].item

LocationsOf(item) ==
    {item.slurs[k].v : k \in {i \in 1..Len(item.slurs) : item.slurs[i].kind = "location"}}
    \cup {item.notes[k].tie.v : k \in {i \in 1..Len(item.notes) : item.notes[i].tie.kind = "location"}}

\* C20: reading an event with an unrecognized slur or tie location ends the
\* pass with an UnsupportedFeatureError, and reading an event whose slur and
\* tie locations are all "incoming" or "outgoing" raises no error (the
\* materialization at the end of the part-measure is left aside).
C20_UnrecognizedLocationUnsupported ==
    (/\ pc \in {"seq", "aborted"}
     /\ doc.items # <<>>
     /\ doc.n = doc.items[Len(doc.items)].at
     /\ outcome.what # "partial"
     /\ LocationsOf(LastItem) # {}) =>
        IF LocationsOf(LastItem) \subseteq {"incoming", "outgoing"}
        THEN pc = "seq" /\ outcome = NoError
        ELSE pc = "aborted" /\ outcome.class = "UnsupportedFeatureError"

\* ---------------------------------------------------------------------- C21
\* the metadata, the part-measure head or the content item that was read last
JustReadHead == doc.heads # <<>> /\ doc.heads[Len(doc.heads)].at = doc.n
JustReadPart == doc.parts # <<>> /\ doc.parts[Len(doc.parts)].at = doc.n
JustReadItem == doc.items # <<>> /\ doc.items[Len(doc.items)].at = doc.n
LastHead == doc.heads[Len(doc.heads)].head
LastClef == doc.parts[Len(doc.parts)].clef

\* what convertMNX hands to its caller once the pass has ended
Reported == IF pc \in {"done", "aborted"} THEN ConvertMNX(outcome) ELSE "<running>"

\* C21: a document whose version is not 1 is rejected with the
\* unsupported-feature result.
C21_OtherVersionIsUnsupported ==
    (JustReadHead /\ LastHead.hasVersion /\ LastHead.version # 1) =>
        Reported = "[Unsupported Feature]"

\* ---------------------------------------------------------------------- C22
\* the constructs of the last item that are well-formed but not implemented
ItemNotSupported(item) ==
    \/ item.type \notin {"event", "grace", "tuplet", Absent}
    \/ /\ item.type = "event"
       /\ ~item.measure
       /\ \/ item.dur.base \notin
                {"whole", "half", "quarter", "eighth", "16th", "32nd", "64th", "128th", NoId, Absent}
          \/ item.kind = "notes" /\ item.stem \notin {"up", "down", NoId}
          \/ item.kind = "notes" /\ item.mark \notin
                {"accent", "staccatissimo", "staccato", "strongAccent", "tenuto", NoId}
          \/ item.kind = "notes" /\ \E k \in 1..Len(item.slurs) :
                item.slurs[k].kind = "location" /\ item.slurs[k].v \notin {"incoming", "outgoing"}

\* the last item lacks something or has something it must not have
ItemMalformed(item) ==
    \/ item.type = Absent
    \/ item.type = "event" /\ item.measure /\ item.dur.base # NoId
    \/ item.type = "event" /\ ~item.measure /\ item.dur.base \in {NoId, Absent}
    \/ item.type = "event" /\ ~item.measure /\ item.kind = "notes" /\ item.dur.dots < 0
    \/ item.type \in {"grace", "tuplet"} /\ \E k \in 1..Len(item.content) : item.content[k].type # "event"

ReadsItem == Len(doc'.items) = Len(doc.items) + 1
ItemBeingRead == doc'.items[Len(doc'.items)].item

\* C23: reading an event that is flagged measure: true and has a duration
\* ends the pass with a structural error and leaves the beam, slur and tie
\* trackers as they were.
C23_WholeMeasureWithDurationRejected ==
    [][(ReadsItem /\ ItemBeingRead.type = "event" /\ ItemBeingRead.measure
                  /\ ItemBeingRead.dur.base # NoId)
        => /\ pc' = "aborted"
           /\ outcome'.class = "MNXParseError"
           /\ beams' = beams /\ slurs' = slurs /\ ties' = ties]_vars

\* a slur is open, and a whole-measure event with a duration that declares
\* a slur of its own has ended the pass without adding to the tracker
C23_Witness ==
    /\ JustReadItem
    /\ LastItem.measure /\ LastItem.dur.base # NoId /\ LastItem.slurs # <<>>
    /\ pc = "aborted" /\ outcome.class = "MNXParseError"
    /\ Len(slurs.ids) = 1

\* ---------------------------------------------------------------------- C24
\* C24: reading an event, of notes or a rest, whose duration has a negative
\* number of dots ends the pass with a structural error (a pass that the
\* unbound noteIDs has ended is left aside).
C24_NegativeDotsRejected ==
    (/\ JustReadItem
     /\ LastItem.type = "event" /\ ~LastItem.measure
     /\ LastItem.dur.dots < 0
     /\ outcome.what # "noteIDs") =>
        pc = "aborted" /\ outcome.class = "MNXParseError"

\* ---------------------------------------------------------------------- C25
\* C25: reading a grace or tuplet item with a child that is not an event
\* ends the pass with a structural error, and the step adds nothing to the
\* trackers, the grace queue, the events created or the voice.
C25_NonEventChildRejectedFirst ==
    [][(/\ ReadsItem
        /\ ItemBeingRead.type \in {"grace", "tuplet"}
        /\ \E k \in 1..Len(ItemBeingRead.content) : ItemBeingRead.content[k].type # "event")
        => /\ pc' = "aborted"
           /\ outcome'.class = "MNXParseError"
           /\ UNCHANGED <<beams, slurs, ties, graceQueue, events, parsedSequence>>]_vars

\* a grace item whose first child declares a slur and whose second child is
\* no event has ended the pass; no slur is tracked and no event was created
C25_Witness ==
    /\ JustReadItem
    /\ LastItem.type = "grace"
    /\ Len(LastItem.content) = 2
    /\ LastItem.content[1].type = "event" /\ LastItem.content[1].slurs # <<>>
    /\ LastItem.content[2].type # "event"
    /\ pc = "aborted" /\ outcome.class = "MNXParseError"
    /\ slurs.ids = <<>> /\ events = <<>> /\ graceQueue = <<>>

\* ---------------------------------------------------------------------- C26
\* the first of the grace notes created right before handle h (h itself if
\* there is none)
RECURSIVE RunStart(_)
RunStart(h) == IF h > 1 /\ events[h - 1].grace THEN RunStart(h - 1) ELSE h

\* the handles of the grace notes created right before handle h, in order
GraceRun(h) == [i \in 1..(h - RunStart(h)) |-> RunStart(h) + i - 1]

\* C26: no grace note is put in a voice; the grace queue holds, in order,
\* the grace notes created since the last event that is no grace note; such
\* an event takes all of them as its group, and after it was translated
\* the grace queue is empty.
C26_GraceNotesWaitForNextEvent ==
    /\ \A k \in 1..Len(parsedSequence) : \A i \in 1..Len(parsedSequence[k]) :
          ~events[parsedSequence[k][i]].grace
    /\ graceQueue = GraceRun(Len(events) + 1)
    /\ \A h \in 1..Len(events) :
          events[h].group = IF events[h].grace THEN <<>> ELSE GraceRun(h)
    /\ (JustReadItem /\ LastItem.type \in {"event", "tuplet"} /\ pc = "seq") => graceQueue = <<>>

\* two grace notes of one item were attached, in order, to the event that
\* followed them, which is alone in its voice
C26_Witness ==
    /\ pc = "seq"
    /\ Len(events) = 3
    /\ events[1].grace /\ events[2].grace
    /\ events[3].group = <<1, 2>>
    /\ parsedSequence = << <<3>> >>
    /\ graceQueue = <<>>

\* ---------------------------------------------------------------------- C27
\* C27: of the grace notes that a grace item without a slash flag creates,
\* the one pushed on an empty grace queue is slashed and no other; with a
\* slash flag, all of them are slashed if it is true and none if it is false.
C27_SlashDefaultAndOverride ==
    [][(ReadsItem /\ ItemBeingRead.type = "grace" /\ pc' = "seq") =>
          \A h \in (Len(events) + 1)..Len(events') :
              /\ events'[h].grace
              /\ events'[h].slash =
                    IF ItemBeingRead.slash = NoId
                    THEN graceQueue = <<>> /\ h = Len(events) + 1
                    ELSE ItemBeingRead.slash = "true"]_vars

\* a grace item without a slash flag has created two grace notes: the
\* first is slashed, the second is not
C27_Witness ==
    /\ JustReadItem
    /\ LastItem.type = "grace" /\ LastItem.slash = NoId
    /\ Len(events) = 2
    /\ events[1].grace /\ events[1].slash
    /\ events[2].grace /\ ~events[2].slash
    /\ graceQueue = <<1, 2>>

\* ---------------------------------------------------------------------- C28
\* the clef that the document puts in effect for part j (1-based) in measure
\* m (0-based): the last one given for that part up to that measure, treble
\* if there is none
RECURSIVE ClefFromDoc(_, _)
ClefFromDoc(j, m) ==
    IF m < 0 THEN "treble"
    ELSE IF m * numParts + j <= Len(doc.parts) /\ doc.parts[m * numParts + j].clef # NoId
         THEN doc.parts[m * numParts + j].clef
    ELSE ClefFromDoc(j, m - 1)

\* C28: the running clef of every part is the last one the document gave
\* for that part, treble if none; every event is translated with the clef
\* in effect for its part in its measure; so is every stave, emitted or
\* queued, in every clef it shows, and every measure of the pending queue
\* in the clefs kept for a redrawn header.
C28_ClefRunsPerPart ==
    /\ \A j \in 1..numParts : clefsArr[j] = ClefFromDoc(j, numMeasures)
    /\ \A h \in 1..Len(events) : events[h].clef = ClefFromDoc(events[h].p + 1, events[h].m)
    /\ \A j \in 1..numParts : \A i \in 1..Len(AllStaves(j)) :
          LET st == AllStaves(j)[i]
          IN \A k \in 1..Len(st.mods) :
                st.mods[k].t = "clef" => st.mods[k].v = ClefFromDoc(j, st.m)
    /\ \A i \in 1..Len(globalMeasInfos) : \A j \in 1..numParts :
          globalMeasInfos[i].startClefs.clefs[j] = ClefFromDoc(j, queues.queues[1].staves[i].m)

\* the first part was given the bass clef in the first measure: an event of
\* the second part in that measure was translated in treble, an event of
\* the first part in the second measure, which gives no clef, in bass
C28_Witness ==
    /\ numParts = 2
    /\ Len(doc.parts) >= 3
    /\ doc.parts[1].clef = "bass" /\ doc.parts[3].clef = NoId
    /\ \E h1, h2 \in 1..Len(events) :
         /\ events[h1].m = 0 /\ events[h1].p = 1 /\ events[h1].clef = "treble"
         /\ events[h2].m = 1 /\ events[h2].p = 0 /\ events[h2].clef = "bass"

\* ---------------------------------------------------------------------- C29
\* C29: the ties completed in one part-measure are turned into tie objects
\* without an error, and no two tie objects join the same source event to
\* the same destination event: ties of one pair of events are one object.
C29_OneTieObjectPerEventPair ==
    /\ ~(pc = "aborted" /\ outcome.what = "partial")
    /\ \A k1, k2 \in 1..Len(factory.ties) :
          (/\ factory.ties[k1].from = factory.ties[k2].from
           /\ factory.ties[k1].to = factory.ties[k2].to) => k1 = k2

\* ---------------------------------------------------------------------- C30
\* C30: a rest is observed by the tie tracker with no note id at all, so it
\* stands at no end of a tie, and reading a rest never fails, the first
\* event of a pass included.
C30_RestResolvesNoTie ==
    /\ \A h \in 1..Len(events) : events[h].kind = "rest" => events[h].obs = <<>>
    /\ \A i \in 1..Len(ties.partial) : \A k \in 1..Len(ties.partial[i]) :
          ties.partial[i][k] # NullNote => events[ties.partial[i][k].event].kind # "rest"
    /\ \A k \in 1..Len(factory.ties) : \A h \in {factory.ties[k].from, factory.ties[k].to} :
          h \in 1..Len(events) => events[h].kind # "rest"
    /\ ~(pc = "aborted" /\ outcome.what = "noteIDs")

\* ---------------------------------------------------------------------- C31
\* C31: every event that has joined a beam, live or removed, belongs to the
\* part whose measure declared the beam, and every event that stands at an
\* end of a live slur or tie belongs to the part of the declaring event.
C31_ResolvedWithinOnePart ==
    /\ \A i \in 1..Len(beams.partial) : \A k \in 1..Len(beams.partial[i]) :
          events[beams.partial[i][k]].p = beamInfo[i].p
    /\ \A i \in 1..Len(beamLog) : \A k \in 1..Len(beamLog[i].notes) :
          events[beamLog[i].notes[k]].p = beamLog[i].p
    /\ \A i \in 1..Len(slurs.partial) : \A k \in 1..Len(slurs.partial[i]) :
          slurs.partial[i][k] # Null => events[slurs.partial[i][k]].p = events[slurs.ids[i].by].p
    /\ \A i \in 1..Len(ties.partial) : \A k \in 1..Len(ties.partial[i]) :
          ties.partial[i][k] # NullNote
             => events[ties.partial[i][k].event].p = events[ties.ids[i].by].p

\* ---------------------------------------------------------------------- C32
\* C32: the grace notes of a group were created in the sequence, part and
\* measure of the event that carries the group, and no grace note is
\* waiting when the next sequence of a part-measure is begun.
C32_GraceStaysInItsSequence ==
    /\ \A h \in 1..Len(events) : \A k \in 1..Len(events[h].group) :
          /\ events[events[h].group[k]].s = events[h].s
          /\ events[events[h].group[k]].p = events[h].p
          /\ events[events[h].group[k]].m = events[h].m
    /\ (/\ pc = "seq"
        /\ doc.seqs # <<>>
        /\ doc.seqs[Len(doc.seqs)].at = doc.n) => graceQueue = <<>>

\* ---------------------------------------------------------------------- C33
\* the targeted slurs removed as complete run from the declaring event to
\* an event that bears the target id
SlursRunSourceToTarget ==
    \A i \in 1..Len(spanLog) :
        (spanLog[i].kind = "slur" /\ spanLog[i].decl = "target") =>
            /\ spanLog[i].from = spanLog[i].by
            /\ spanLog[i].to \in 1..Len(events)
            /\ \E k \in 1..Len(events[spanLog[i].by].slurs) :
                  events[spanLog[i].by].slurs[k] = [kind |-> "target", v |-> events[spanLog[i].to].id]

\* the targeted ties removed as complete run from the declaring event to
\* an event that has a note with the target id
TiesRunSourceToTarget ==
    \A i \in 1..Len(spanLog) :
        (spanLog[i].kind = "tie" /\ spanLog[i].decl = "target") =>
            /\ spanLog[i].from = spanLog[i].by
            /\ spanLog[i].to \in 1..Len(events)
            /\ events[spanLog[i].to].kind = "notes"
            /\ \E k \in 1..Len(events[spanLog[i].by].notes) :
                 \E n \in 1..Len(events[spanLog[i].to].notes) :
                    events[spanLog[i].by].notes[k].tie
                        = [kind |-> "target", v |-> events[spanLog[i].to].notes[n].id]

\* a tie object with both ends names, at the source end, a note of the
\* source chord that declares a targeted tie and, at the destination end,
\* the note of the destination chord that has the target id
TieIndicesNameTheTiedNotes ==
    \A i \in 1..Len(factory.ties) :
        LET t  == factory.ties[i]
            k1 == t.first_indices[1] + 1
            k2 == t.last_indices[1] + 1
        IN t.to # Null =>
              /\ events[t.from].kind = "notes" /\ k1 \in 1..Len(events[t.from].notes)
              /\ events[t.from].notes[k1].tie.kind = "target"
              /\ events[t.to].kind = "notes" /\ k2 \in 1..Len(events[t.to].notes)
              /\ events[t.to].notes[k2].id = events[t.from].notes[k1].tie.v

\* C33: every targeted slur or tie that was materialized runs from the
\* declaring event to the target event, with both ends present, and a tie
\* names for each end the tied note by its index in its own chord.
C33_TargetedSpansRunSourceToTarget ==
    SlursRunSourceToTarget /\ TiesRunSourceToTarget /\ TieIndicesNameTheTiedNotes

\* ---------------------------------------------------------------------- C34
\* the provisional widths of the measures in the line queue
LineQueueWidths == [k \in 1..lineQueues.size |-> lineQueues.queues[1].staves[k].width]

\* C34: until the final flush the horizontal cursor is the sum of the
\* provisional widths of the measures in the line queue, and it lies
\* between 0 and defaultSheetWidth; the same holds before every single
\* placement, for the measures placed on the line so far; and the total
\* width that flushLine divides by is the sum of the provisional widths of
\* the measures of the line it emits.
C34_CursorIsSumOfLineWidths ==
    /\ pc # "done" => curPosition.x = SumSeq(LineQueueWidths)
    /\ 0 <= curPosition.x /\ curPosition.x <= defaultSheetWidth
    /\ \A i \in 1..Len(placeLog) :
          /\ 0 <= placeLog[i].xBefore /\ placeLog[i].xBefore <= defaultSheetWidth
          /\ placeLog[i].lineBefore < i
          /\ placeLog[i].xBefore =
                SumSeq([k \in 1..placeLog[i].lineBefore |->
                           placeLog[i - placeLog[i].lineBefore + k - 1].requiredWidth])
    /\ \A y \in EmittedLines :
          LineAt(y)[1].den = SumSeq([i \in 1..Len(LineAt(y)) |-> LineAt(y)[i].staves[1].stave.width])

\* a line of two measures of different widths was emitted when the third
\* measure did not fit; the cursor stands behind that third measure
C34_Witness ==
    /\ pc = "measure"
    /\ Len(factory.systems) = 2 /\ lineQueues.size = 1
    /\ placeLog[3].reflowed /\ placeLog[3].xBefore > 0
    /\ factory.systems[1].staves[1].stave.width # factory.systems[2].staves[1].stave.width
    /\ factory.systems[1].den = placeLog[3].xBefore
    /\ curPosition.x = placeLog[3].requiredWidth

\* ---------------------------------------------------------------------- C35
\* the placements that flushed the line queue first
Reflows == {i \in 1..Len(placeLog) : placeLog[i].reflowed}

\* C35: whenever a measure does not fit the line, the line queue holds
\* at least one measure and the cursor is positive, so flushLine divides by
\* a positive total width and every reflow emits a line of at least one
\* measure: until the final flush there are as many emitted lines as reflows.
C35_ReflowFlushesNonEmptyLine ==
    /\ \A i \in Reflows : placeLog[i].lineBefore >= 1 /\ placeLog[i].xBefore > 0
    /\ \A k \in 1..Len(factory.systems) : factory.systems[k].den > 0
    /\ pc # "done" => Cardinality(EmittedLines) = Cardinality(Reflows)

\* a measure wider than the sheet came after one measure on the line: its
\* width was clamped and the line of one measure was emitted
C35_Witness ==
    \E i \in Reflows :
        /\ placeLog[i].measured > defaultSheetWidth
        /\ placeLog[i].lineBefore = 1
        /\ Len(factory.systems) = 1
        /\ factory.systems[1].den = placeLog[i].xBefore

\* ---------------------------------------------------------------------- C36
\* the attributes of pending measure i are those of the measure whose
\* staves stand at index i of the pending queue
PendingInfoIsOfItsMeasure(i) ==
    LET info == globalMeasInfos[i]
        m    == queues.queues[1].staves[i].m
    IN /\ info.start = (m = 0) /\ info.end = (m = numMeasures - 1)
       /\ info.timeChange = doc.measures[m + 1].time
       /\ IF doc.measures[m + 1].key = NoId THEN info.keyChange = <<>>
          ELSE Len(info.keyChange) = 2 /\ info.keyChange[2] = doc.measures[m + 1].key
       /\ \A j \in 1..numParts :
            /\ queues.queues[j].staves[i].m = m
            /\ info.startKey = queues.queues[j].staves[i].keyInEffect
            /\ info.startClefs.clefs[j] = queues.queues[j].staves[i].clefInEffect
            /\ info.startClefs.clefsAdded[j] = queues.queues[j].staves[i].explicitClef

\* a placed stave shows the time and key change and the end bar of its own
\* measure, and no other
PlacedStaveIsOfItsMeasure(st) ==
    /\ (\E k \in 1..Len(st.mods) : st.mods[k].t = "time") <=> doc.measures[st.m + 1].time # NoId
    /\ \A k \in 1..Len(st.mods) : st.mods[k].t = "time" => st.mods[k].v = doc.measures[st.m + 1].time
    /\ doc.measures[st.m + 1].key # NoId =>
          \A k \in 1..Len(st.mods) : st.mods[k].t = "key" => st.mods[k].v = doc.measures[st.m + 1].key
    /\ \A k \in 1..Len(st.mods) : st.mods[k].t = "key" => st.mods[k].v = st.keyInEffect
    /\ (st.endBar = "end") <=> (st.m = numMeasures - 1)

PlacedVoices(j) ==
    [k \in 1..Len(factory.systems) |-> factory.systems[k].staves[j].voices]
    \o lineQueues.queues[j].voices

\* what part j asked for when placement i was measured: the stave carried
\* its explicit clef, if any, and nothing else
AskedWidth(j, i) ==
    staveStartPadding + modifierWidth * Cost(PlacedStaves(j)[i].explicitClef)
    + (1 + measureWidthAestheticFactor) * PlacedVoices(j)[i].minTotalWidth

\* C37: the staves of all parts of a placed measure have one provisional
\* width, the largest width a part asked for, brought into the clamp
\* range; in an emitted system they have one justified width, one x and
\* one y, those of the system.
C37_PartsShareWidthAndPosition ==
    /\ \A i \in 1..Len(placeLog) :
          /\ \A j \in 1..numParts :
                /\ PlacedStaves(j)[i].width = placeLog[i].requiredWidth
                /\ AskedWidth(j, i) <= placeLog[i].measured
          /\ \E j \in 1..numParts : AskedWidth(j, i) = placeLog[i].measured
          /\ placeLog[i].requiredWidth = ClampWidth(placeLog[i].measured)
    /\ \A k \in 1..Len(factory.systems) : \A j \in 1..numParts :
          /\ factory.systems[k].staves[j].wNum = factory.systems[k].wNum
          /\ factory.systems[k].staves[j].xNum = factory.systems[k].xNum
          /\ factory.systems[k].staves[j].y = factory.systems[k].y
          /\ factory.systems[k].staves[j].stave.m = factory.systems[k].staves[1].stave.m

\* the second part of a measure asked for more than the first; both staves
\* got the width the second asked for and were emitted side by side
C37_Witness ==
    /\ numParts = 2
    /\ Len(factory.systems) >= 2
    /\ AskedWidth(1, 2) < AskedWidth(2, 2)
    /\ PlacedStaves(1)[2].width = AskedWidth(2, 2)
    /\ PlacedStaves(2)[2].width = AskedWidth(2, 2)
    /\ factory.systems[2].xNum > 0
    /\ factory.systems[2].staves[1].xNum = factory.systems[2].staves[2].xNum

\* ---------------------------------------------------------------------- C38
\* C38: the width measured for a placed measure is, for the widest part,
\* the start offset of the stave with every header element it carries once
\* placed, plus the inflated content width, and no part needs more.
C38_StartOffsetCountsEveryHeader ==
    \A i \in 1..Len(placeLog) :
        /\ \A j \in 1..numParts :
              NoteStartX(PlacedStaves(j)[i])
              + (1 + measureWidthAestheticFactor) * PlacedVoices(j)[i].minTotalWidth
                 <= placeLog[i].measured
        /\ \E j \in 1..numParts :
              NoteStartX(PlacedStaves(j)[i])
              + (1 + measureWidthAestheticFactor) * PlacedVoices(j)[i].minTotalWidth
                 = placeLog[i].measured

\* ---------------------------------------------------------------------- C39
\* for the emitted line at height y, the values bounding-box top + stave
\* offset + (1 + measureHeightSafetyFactor) * height of all its voices and
\* staves
LineTests(y) ==
    {TestNextLineY([y |-> y + LineAt(y)[i].staves[j].voices.box.top,
                    ybase |-> (j - 1) * spaceBetweenStaves,
                    h |-> LineAt(y)[i].staves[j].voices.box.h]) :
        i \in 1..Len(LineAt(y)), j \in 1..numParts}
    \cup {TestNextLineY([y |-> y, ybase |-> (j - 1) * spaceBetweenStaves, h |-> boundingBoxHeight]) :
        j \in 1..numParts}

LineBottom(y) == CHOOSE t \in LineTests(y) : \A u \in LineTests(y) : u <= t

\* what holds of the cursor and the canvas in every state
CursorBelowEmittedLines ==
    /\ \A k \in 2..Len(factory.systems) :
          factory.systems[k].y # factory.systems[k - 1].y =>
              /\ factory.systems[k].y = LineBottom(factory.systems[k - 1].y)
              /\ factory.systems[k].y > factory.systems[k - 1].y
    /\ (pc # "done" /\ factory.systems # <<>>) =>
          curPosition.y = LineBottom(factory.systems[Len(factory.systems)].y)
    /\ factory.systems = <<>> => curPosition.y = 0
    /\ factory.height >= defaultSheetHeight
    /\ factory.height >= curPosition.y
    /\ \A y \in EmittedLines : factory.height >= LineBottom(y)

\* C39: every reflow sets the vertical cursor to the largest value of
\* bounding-box top + stave offset + (1 + measureHeightSafetyFactor) *
\* height over the voices and staves of the line it emits; every line
\* lies below the one before; the canvas is at least as high as at the
\* start, as the cursor and as the bottom of every emitted line, and
\* within a pass neither the cursor nor the canvas height ever decreases.
C39_VerticalCursorAndCanvas ==
    /\ []CursorBelowEmittedLines
    /\ [][pass' = pass =>
             /\ curPosition'.y >= curPosition.y
             /\ factory'.height >= factory.height]_vars

\* a reflow emitted a line on which a voice reaches lower than every
\* stave; the cursor stands below that voice and the canvas was enlarged
C39_Witness ==
    /\ pc # "done"
    /\ Len(factory.systems) = 2
    /\ \E i \in 1..2 : factory.systems[i].staves[1].voices.box.h > boundingBoxHeight
    /\ curPosition.y = TestNextLineY([y |-> 0, ybase |-> 0, h |-> 3 * boundingBoxHeight])
    /\ \A j \in 1..numParts :
          curPosition.y > TestNextLineY([y |-> 0, ybase |-> (j - 1) * spaceBetweenStaves,
                                         h |-> boundingBoxHeight])
    /\ factory.height = curPosition.y /\ factory.height > defaultSheetHeight

====
